---- MODULE Spec2Model ----
(***************************************************************************)
(* Token-bucket limiter, chunk ordering, model routing and the sequential  *)
(* streaming pass of the website redesign tool.                            *)
(*                                                                         *)
(* Time is counted in ticks; token counts, quotas and budgets are scaled   *)
(* down from the values of the source (30000 tokens -> 3, 60000 ms -> 2    *)
(* ticks) so that the quota, the window and the router budgets can all be  *)
(* reached and exceeded by a handful of chunks.                            *)
(*                                                                         *)
(* One limiter call reads the clock once: every Date.now() of a call sees  *)
(* the same instant.  The clock never goes backwards.                      *)
(***************************************************************************)
EXTENDS Integers, Sequences, FiniteSets, TLC

VARIABLES
  now,          \* Date.now(), in ticks
  buckets,      \* RateLimiterManager.buckets: model -> TokenBucket
  ledger,       \* history variable: every record consumeTokens ever pushed, per model
  ret,          \* history variable: the last call examined and what it returned
  chunks,       \* chunkingResult.chunks of the pass
  routingMap,   \* routingMap of the pass: chunk index -> ModelSelection
  i,            \* loop index of processChunkedRedesign (1-based)
  pc,           \* position of processChunkedRedesign
  chunkResults, \* chunkResults of the pass
  errors,       \* errors of the pass
  tokensUsed,   \* tokensUsed of the pass
  rateLimitingEvents,
  preservedImages,
  inflight,     \* chunk indices whose generation call has started and not yet settled
  dispatched,   \* history variable: one entry per call of processChunk, in call order
  waited,       \* history variable: the chunks the pass slept for, with the slept duration
  outcome,      \* how processChunkedRedesign ended: "none", "returned" or "threw"
  streamingResult, \* the StreamingResult returned, meaningful once outcome = "returned"
  progress,     \* history variable: the reports handed to onProgress, in call order
  LLM_MODEL,    \* process.env.LLM_MODEL
  frame,        \* arguments and locals of the call of a service function in progress
  llmService    \* the LLMService singleton of llmService.ts: its field model

vars == <<now, buckets, ledger, ret, chunks, routingMap, i, pc, chunkResults,
          errors, tokensUsed, rateLimitingEvents, preservedImages, inflight,
          dispatched, waited, outcome, streamingResult, progress,
          LLM_MODEL, frame, llmService>>

limiterVars == <<now, buckets, ledger, ret>>
passVars == <<chunks, routingMap, i, pc, chunkResults, errors, tokensUsed,
              rateLimitingEvents, preservedImages, inflight, dispatched,
              waited, outcome, streamingResult, progress, LLM_MODEL, frame, llmService>>

----------------------------------------------------------------------------
(* Bounds of the model *)

MaxClock == 3        \* no optional delay is taken once the clock has reached this
MaxStep == 1         \* longest optional delay of one step, in ticks
MaxConsumes == 2     \* consumeTokens calls explored by the limiter specification
MaxWaitCalls == 1    \* denied waitTimeForTokens calls explored by the limiter specification
MaxChunks == 2       \* longest chunk list of a pass
MaxErrors == 1       \* recordRateLimitError calls explored by the limiter specification
MaxNodes == 2        \* most elements of a document handed to chunkContent
MaxImages == 2       \* most img tags of the original markup handed to validateImagePreservation
MaxSplit == 2        \* longest chunk list handed to splitOversizedChunks

(* Configuration of the limiter and the router, scaled *)

WindowSize == 2      \* windowSize of every bucket
MaxTokensGpt5 == 3   \* maxTokens of the gpt-5 bucket
MaxTokensGpt4o == 4  \* maxTokens of the gpt-4o bucket
Gpt5Budget == 2      \* strategy.gpt5Budget
Gpt4oBudget == 1     \* strategy.gpt4oBudget
ImageTokens == 1     \* estimatedTokens of one image
ChunkDelay == 0      \* waitFor(100) between chunks: 100 ms is below one tick

Models == {"gpt-5", "gpt-4o"}

Max2(a, b) == IF a > b THEN a ELSE b

Unset == "undefined"     \* process.env.LLM_MODEL when the variable is not set

\* llmService.ts line 18, run once when the module is loaded:
\* this.model = process.env.LLM_MODEL || 'gpt-5'
NewLLMService(setting) ==
  [model |-> IF setting \in {Unset, ""} THEN "gpt-5" ELSE setting]

----------------------------------------------------------------------------
(* TokenBucket *)

TokenBucketConfig(m) ==
  [maxTokens |-> IF m = "gpt-5" THEN MaxTokensGpt5 ELSE MaxTokensGpt4o,
   windowSize |-> WindowSize]

NewTokenBucket(m) ==
  [config |-> TokenBucketConfig(m),
   usageHistory |-> << >>,
   queuedRequests |-> 0,
   errors429Count |-> 0,
   waitTimes |-> << >>]

RECURSIVE SumTokens(_)
SumTokens(h) ==
  IF h = << >> THEN 0 ELSE Head(h).tokensUsed + SumTokens(Tail(h))

NotExpired(r, cutoff) == r.timestamp > cutoff

\* cleanOldUsage with the boundary record kept (>= instead of >)
cleanOldUsage_keepsBoundary(b, t) ==
  [b EXCEPT !.usageHistory =
     SelectSeq(@, LAMBDA r : r.timestamp >= t - b.config.windowSize)]

\* cleanOldUsage that never purges
cleanOldUsage_neverPurges(b, t) == b

cleanOldUsage(b, t) ==
  [b EXCEPT !.usageHistory =
     SelectSeq(@, LAMBDA r : NotExpired(r, t - b.config.windowSize))]

getCurrentUsage(b) == SumTokens(b.usageHistory)

\* canProcess: the value returned, and the bucket it leaves behind
canProcess(b, tokenCount, t) ==
  getCurrentUsage(cleanOldUsage(b, t)) + tokenCount <= b.config.maxTokens

canProcessBucket(b, t) == cleanOldUsage(b, t)

consumeTokens(b, tokenCount, t) ==
  [cleanOldUsage(b, t) EXCEPT !.usageHistory =
     Append(@, [timestamp |-> t, tokensUsed |-> tokenCount])]

getAvailableTokens(b, t) ==
  Max2(0, b.config.maxTokens - getCurrentUsage(cleanOldUsage(b, t)))

\* the loop of waitTimeForTokens: the first record, oldest first, at which
\* the running total reaches the excess; 0 when there is none
RECURSIVE FirstCovering(_, _, _, _)
FirstCovering(h, k, cumulativeTokens, excessTokens) ==
  IF k > Len(h) THEN 0
  ELSE IF cumulativeTokens + h[k].tokensUsed >= excessTokens THEN k
  ELSE FirstCovering(h, k + 1, cumulativeTokens + h[k].tokensUsed, excessTokens)

\* waits for the oldest record in the window, whatever it covers
waitTimeForTokens_oldestRecord(b, tokenCount, t) ==
  IF canProcess(b, tokenCount, t) THEN 0
  ELSE LET c == cleanOldUsage(b, t)
       IN IF c.usageHistory # << >>
          THEN Max2(0, (c.usageHistory[1].timestamp + c.config.windowSize) - t)
          ELSE c.config.windowSize

\* waitTimeForTokens with the window length left out of the expiry time
waitTimeForTokens_noWindow(b, tokenCount, t) ==
  IF canProcess(b, tokenCount, t) THEN 0
  ELSE LET c == cleanOldUsage(b, t)
           excessTokens == (getCurrentUsage(c) + tokenCount) - c.config.maxTokens
           k == FirstCovering(c.usageHistory, 1, 0, excessTokens)
       IN IF k > 0
          THEN Max2(0, c.usageHistory[k].timestamp - t)
          ELSE c.config.windowSize

waitTimeForTokens(b, tokenCount, t) ==
  IF canProcess(b, tokenCount, t) THEN 0
  ELSE LET c == cleanOldUsage(b, t)
           excessTokens == (getCurrentUsage(c) + tokenCount) - c.config.maxTokens
           k == FirstCovering(c.usageHistory, 1, 0, excessTokens)
       IN IF k > 0
          THEN Max2(0, (c.usageHistory[k].timestamp + c.config.windowSize) - t)
          ELSE c.config.windowSize

waitTimeForTokensBucket(b, tokenCount, t) ==
  IF canProcess(b, tokenCount, t) THEN cleanOldUsage(b, t)
  ELSE [cleanOldUsage(b, t) EXCEPT !.waitTimes =
          Append(@, waitTimeForTokens(b, tokenCount, t))]

recordRateLimitError(b) == [b EXCEPT !.errors429Count = @ + 1]

\* what getAvailableTokens and getMetrics leave behind: the purged bucket
getAvailableTokensBucket(b, t) == cleanOldUsage(b, t)

\* a getMetrics that clears the statistics it has reported
getMetricsBucket_resets(b, t) ==
  [cleanOldUsage(b, t) EXCEPT !.errors429Count = 0, !.waitTimes = << >>]

getMetricsBucket(b, t) == cleanOldUsage(b, t)

----------------------------------------------------------------------------
(* ContentChunker: the chunks of a document and their order *)

priorityOrder(p) ==
  CASE p = "critical" -> 0 [] p = "high" -> 1 [] p = "medium" -> 2 [] OTHER -> 3

hasImportance(images, imp) == \E k \in 1..Len(images) : images[k] = imp

\* a derivation that tests the section type before the hero rule
sectionPriority_typeBeforeHero(sectionType, images) ==
  IF hasImportance(images, "critical") \/ hasImportance(images, "product")
    THEN "critical"
  ELSE IF sectionType = "footer" \/ sectionType = "nav" THEN "low"
  ELSE IF hasImportance(images, "hero") THEN "high"
  ELSE "medium"

\* the priority chunkContent gives a typed section
sectionPriority(sectionType, images) ==
  IF hasImportance(images, "critical") \/ hasImportance(images, "product")
    THEN "critical"
  ELSE IF hasImportance(images, "hero") \/ sectionType = "hero" THEN "high"
  ELSE IF sectionType = "footer" \/ sectionType = "nav" THEN "low"
  ELSE "medium"

\* one typed section as chunkContent pushes it; html stands for ceil(length / 4)
sectionChunk(id, sectionType, images, html) ==
  [id |-> id, type |-> sectionType, images |-> images,
   estimatedTokens |-> html + Len(images) * ImageTokens,
   priority |-> sectionPriority(sectionType, images)]

\* the trailing chunk chunkContent pushes for the markup that no typed section
\* claimed; its images are decorative ones
mixedChunk(id, images, html) ==
  [id |-> id, type |-> "mixed", images |-> images,
   estimatedTokens |-> html + Len(images) * ImageTokens,
   priority |-> "low"]

\* a comparator that forces the header first and the footer last before it
\* looks at the priority
comparePriority_anchorsFirst(a, b) ==
  IF a.type = "header" /\ b.type # "header" THEN -1
  ELSE IF b.type = "header" /\ a.type # "header" THEN 1
  ELSE IF a.type = "footer" /\ b.type # "footer" THEN 1
  ELSE IF b.type = "footer" /\ a.type # "footer" THEN -1
  ELSE priorityOrder(a.priority) - priorityOrder(b.priority)

\* a comparator that looks at the priority only
comparePriority_priorityOnly(a, b) ==
  priorityOrder(a.priority) - priorityOrder(b.priority)

\* the comparator of sortChunksByPriority
comparePriority(a, b) ==
  LET priorityDiff == priorityOrder(a.priority) - priorityOrder(b.priority)
  IN IF priorityDiff # 0 THEN priorityDiff
     ELSE IF a.type = "header" THEN -1
     ELSE IF b.type = "header" THEN 1
     ELSE IF a.type = "footer" THEN 1
     ELSE IF b.type = "footer" THEN -1
     ELSE 0

\* Array.prototype.sort as a stable insertion sort: x moves left past every
\* element it compares below
RECURSIVE insertPosition(_, _, _)
insertPosition(sorted, x, p) ==
  IF p >= 1 /\ comparePriority(x, sorted[p]) < 0
    THEN insertPosition(sorted, x, p - 1)
    ELSE p

insertChunk(sorted, x) ==
  LET p == insertPosition(sorted, x, Len(sorted))
  IN SubSeq(sorted, 1, p) \o <<x>> \o SubSeq(sorted, p + 1, Len(sorted))

RECURSIVE sortChunksByPriority(_)
sortChunksByPriority(cs) ==
  IF cs = << >> THEN << >>
  ELSE insertChunk(sortChunksByPriority(SubSeq(cs, 1, Len(cs) - 1)), cs[Len(cs)])

----------------------------------------------------------------------------
(* ModelRouter *)

getNumericPriority(chunk) == priorityOrder(chunk.priority)

\* imageTokenRatio is (image tokens) / estimatedTokens; the two tests on it
\* are written without the division: ratio < 0.3 and ratio > 0.7
analyzeChunkForRouting(chunk) ==
  [imageCount |-> Len(chunk.images),
   hasCriticalImages |-> hasImportance(chunk.images, "critical"),
   hasProductImages |-> hasImportance(chunk.images, "product"),
   hasHeroImages |-> hasImportance(chunk.images, "hero"),
   isTextHeavy |-> 10 * (Len(chunk.images) * ImageTokens) < 3 * chunk.estimatedTokens,
   isImageHeavy |-> 10 * (Len(chunk.images) * ImageTokens) > 7 * chunk.estimatedTokens,
   chunkType |-> chunk.type,
   priority |-> chunk.priority]

selectOptimalModel(analysis) ==
  IF analysis.hasCriticalImages \/ analysis.hasProductImages THEN "gpt-5"
  ELSE IF analysis.hasHeroImages \/ analysis.priority = "high" THEN "gpt-5"
  ELSE IF analysis.isImageHeavy /\ analysis.imageCount > 2 THEN "gpt-5"
  ELSE IF analysis.isTextHeavy \/ analysis.chunkType = "footer"
            \/ analysis.chunkType = "nav" THEN "gpt-4o"
  ELSE "gpt-4o"

\* routeContentChunk: the ModelSelection and the bucket the limiter calls leave
routeContentChunk(chunk, bks, t) ==
  LET model == selectOptimalModel(analyzeChunkForRouting(chunk))
      b == bks[model]
      ok == canProcess(b, chunk.estimatedTokens, t)
  IN [selection |->
        [model |-> model,
         estimatedTokens |-> chunk.estimatedTokens,
         canProcess |-> ok,
         waitTime |-> IF ok THEN 0
                      ELSE waitTimeForTokens(canProcessBucket(b, t),
                                             chunk.estimatedTokens, t)],
      buckets |-> [bks EXCEPT ![model] =
                     IF ok THEN canProcessBucket(b, t)
                     ELSE waitTimeForTokensBucket(canProcessBucket(b, t),
                                                  chunk.estimatedTokens, t)]]

\* [...chunks].sort by numeric priority, stable; the list holds chunk indices
RECURSIVE routePosition(_, _, _, _)
routePosition(cs, sorted, x, p) ==
  IF p >= 1 /\ getNumericPriority(cs[x]) - getNumericPriority(cs[sorted[p]]) < 0
    THEN routePosition(cs, sorted, x, p - 1)
    ELSE p

RECURSIVE sortedForRouting(_, _)
sortedForRouting(cs, n) ==
  IF n = 0 THEN << >>
  ELSE LET sorted == sortedForRouting(cs, n - 1)
           p == routePosition(cs, sorted, n, Len(sorted))
       IN SubSeq(sorted, 1, p) \o <<n>> \o SubSeq(sorted, p + 1, Len(sorted))

\* critical images go to the cheaper tier once the gpt-5 budget is exceeded
selectModel_criticalOverBudgetCheap(chunk, gpt5TokensUsed, gpt4oTokensUsed) ==
  LET routing == analyzeChunkForRouting(chunk)
  IN IF (routing.hasCriticalImages \/ routing.hasProductImages)
          /\ gpt5TokensUsed + chunk.estimatedTokens <= Gpt5Budget THEN "gpt-5"
     ELSE IF routing.hasCriticalImages \/ routing.hasProductImages THEN "gpt-4o"
     ELSE IF routing.hasHeroImages
             /\ gpt5TokensUsed + chunk.estimatedTokens <= Gpt5Budget THEN "gpt-5"
     ELSE IF gpt4oTokensUsed + chunk.estimatedTokens <= Gpt4oBudget THEN "gpt-4o"
     ELSE IF routing.imageCount > 0 THEN "gpt-5"
     ELSE "gpt-4o"

\* the fallback of the last branch always picks the cheaper tier
selectModel_fallbackCheap(chunk, gpt5TokensUsed, gpt4oTokensUsed) ==
  LET routing == analyzeChunkForRouting(chunk)
  IN IF routing.hasCriticalImages \/ routing.hasProductImages THEN "gpt-5"
     ELSE IF routing.hasHeroImages
             /\ gpt5TokensUsed + chunk.estimatedTokens <= Gpt5Budget THEN "gpt-5"
     ELSE "gpt-4o"

\* the hero rule without its test for a hero image: whatever fits the gpt-5
\* budget goes to gpt-5
selectModel_gpt5First(chunk, gpt5TokensUsed, gpt4oTokensUsed) ==
  LET routing == analyzeChunkForRouting(chunk)
  IN IF routing.hasCriticalImages \/ routing.hasProductImages THEN "gpt-5"
     ELSE IF gpt5TokensUsed + chunk.estimatedTokens <= Gpt5Budget THEN "gpt-5"
     ELSE IF gpt4oTokensUsed + chunk.estimatedTokens <= Gpt4oBudget THEN "gpt-4o"
     ELSE IF routing.imageCount > 0 THEN "gpt-5"
     ELSE "gpt-4o"

\* the branch of routeMultipleChunks for one chunk: the model selected
selectModel(chunk, gpt5TokensUsed, gpt4oTokensUsed) ==
  LET routing == analyzeChunkForRouting(chunk)
  IN IF routing.hasCriticalImages \/ routing.hasProductImages THEN "gpt-5"
     ELSE IF routing.hasHeroImages
             /\ gpt5TokensUsed + chunk.estimatedTokens <= Gpt5Budget THEN "gpt-5"
     ELSE IF gpt4oTokensUsed + chunk.estimatedTokens <= Gpt4oBudget THEN "gpt-4o"
     ELSE IF routing.imageCount > 0 THEN "gpt-5"
     ELSE "gpt-4o"

\* the loop of routeMultipleChunks over the sorted chunks, from position k:
\* the routing map, the allocation counters and the limiter it leaves behind
RECURSIVE routeLoop(_, _, _, _)
routeLoop(cs, order, k, acc) ==
  IF k > Len(order) THEN acc
  ELSE LET chunk == cs[order[k]]
           selectedModel == selectModel(chunk, acc.gpt5TokensUsed, acc.gpt4oTokensUsed)
           b == acc.buckets[selectedModel]
           ok == canProcess(b, chunk.estimatedTokens, acc.t)
           waitTime == IF ok THEN 0
                       ELSE waitTimeForTokens(canProcessBucket(b, acc.t),
                                              chunk.estimatedTokens, acc.t)
           b2 == IF ok THEN canProcessBucket(b, acc.t)
                 ELSE waitTimeForTokensBucket(canProcessBucket(b, acc.t),
                                              chunk.estimatedTokens, acc.t)
       IN routeLoop(cs, order, k + 1,
            [acc EXCEPT
               !.map = @ @@ (order[k] :>
                  [model |-> selectedModel,
                   estimatedTokens |-> chunk.estimatedTokens,
                   canProcess |-> ok,
                   waitTime |-> waitTime]),
               !.gpt5TokensUsed =
                  IF selectedModel = "gpt-5" THEN @ + chunk.estimatedTokens ELSE @,
               !.gpt4oTokensUsed =
                  IF selectedModel = "gpt-4o" THEN @ + chunk.estimatedTokens ELSE @,
               !.buckets = [@ EXCEPT ![selectedModel] = b2]])

\* a loop that stops one chunk short of the end of the sorted list
routeMultipleChunks_skipsLast(cs, bks, t) ==
  routeLoop(cs, SubSeq(sortedForRouting(cs, Len(cs)), 1, Len(cs) - 1), 1,
            [map |-> << >>, gpt5TokensUsed |-> 0, gpt4oTokensUsed |-> 0,
             buckets |-> bks, t |-> t])

routeMultipleChunks(cs, bks, t) ==
  routeLoop(cs, sortedForRouting(cs, Len(cs)), 1,
            [map |-> << >>, gpt5TokensUsed |-> 0, gpt4oTokensUsed |-> 0,
             buckets |-> bks, t |-> t])

\* chunks.reduce((sum, chunk) => sum + chunk.estimatedTokens, 0)
RECURSIVE sumEstimatedTokens(_)
sumEstimatedTokens(cs) ==
  IF cs = << >> THEN 0
  ELSE Head(cs).estimatedTokens + sumEstimatedTokens(Tail(cs))

\* line 222: the chunk size limit of 25000 tokens, two and a half units of
\* 10000 tokens, doubled to stay in the integers
ChunkSizeLimitDoubled == 5

isOversized(chunk) == 2 * chunk.estimatedTokens > ChunkSizeLimitDoubled

hasCriticalImage(chunk) ==
  hasImportance(chunk.images, "critical") \/ hasImportance(chunk.images, "product")

\* the check without its test of the individual chunk sizes
validateRoutingFeasibility_noSizeTest(cs) ==
  LET totalTokens == sumEstimatedTokens(cs)
      totalBudget == Gpt5Budget + Gpt4oBudget
      criticalTokens == sumEstimatedTokens(SelectSeq(cs, hasCriticalImage))
      issues ==
        (IF totalTokens > totalBudget THEN <<"totalTokens">> ELSE << >>)
          \o (IF criticalTokens > Gpt5Budget THEN <<"criticalTokens">> ELSE << >>)
      recommendations ==
        (IF totalTokens > totalBudget THEN <<"multipleRounds">> ELSE << >>)
          \o (IF criticalTokens > Gpt5Budget THEN <<"increaseGpt5Budget">> ELSE << >>)
  IN [feasible |-> Len(issues) = 0, issues |-> issues,
      recommendations |-> recommendations]

\* validateRoutingFeasibility: each issue and each recommendation stands as
\* a name for its text
validateRoutingFeasibility(cs) ==
  LET totalTokens == sumEstimatedTokens(cs)
      totalBudget == Gpt5Budget + Gpt4oBudget
      criticalTokens == sumEstimatedTokens(SelectSeq(cs, hasCriticalImage))
      oversizedChunks == SelectSeq(cs, isOversized)
      issues ==
        (IF totalTokens > totalBudget THEN <<"totalTokens">> ELSE << >>)
          \o (IF criticalTokens > Gpt5Budget THEN <<"criticalTokens">> ELSE << >>)
          \o (IF Len(oversizedChunks) > 0 THEN <<"oversizedChunks">> ELSE << >>)
      recommendations ==
        (IF totalTokens > totalBudget THEN <<"multipleRounds">> ELSE << >>)
          \o (IF criticalTokens > Gpt5Budget THEN <<"increaseGpt5Budget">> ELSE << >>)
          \o (IF Len(oversizedChunks) > 0 THEN <<"splitOversized">> ELSE << >>)
  IN [feasible |-> Len(issues) = 0, issues |-> issues,
      recommendations |-> recommendations]

----------------------------------------------------------------------------
(* The documents explored: typed sections in the extraction order of       *)
(* chunkContent, each with its images and the token estimate of its markup *)

sectionTypes == <<"header", "nav", "hero", "main", "product", "gallery", "aside", "footer">>

Header == 1
Hero == 3
Main == 4
Footer == 8
Mixed == 9     \* the remaining markup, after the eight section types

\* header and footer sections are short and carry no image or a critical
\* one; a main section is short or long and may also carry a hero image
SectionKinds ==
  ({Header, Footer} \X {<< >>, <<"critical">>} \X {1})
    \cup ({Main} \X {<< >>, <<"critical">>, <<"hero">>} \X {1, 3})

RawSections ==
  UNION {{s \in [1..n -> SectionKinds] :
            \A k \in 1..(n - 1) : s[k][1] <= s[k + 1][1]} : n \in 0..MaxChunks}

\* the chunks array of chunkContent before it is sorted
rawChunks(s) ==
  [k \in 1..Len(s) |->
     IF s[k][1] = Mixed THEN mixedChunk(k, s[k][2], s[k][3])
     ELSE sectionChunk(k, sectionTypes[s[k][1]], s[k][2], s[k][3])]

\* what chunkContent returns as chunkingResult.chunks
chunkContent(s) == sortChunksByPriority(rawChunks(s))

----------------------------------------------------------------------------
(* StreamingLLMService.processChunkedRedesign *)

QuotaError == "429 rate limit exceeded"
OtherError == "malformed output"
Settlements == {"ok", QuotaError, OtherError}

\* the optional part of a delay: how late a timer or a reply may be
Lateness == IF now >= MaxClock THEN {0} ELSE 0..MaxStep

isQuotaError(errorMessage) == errorMessage = QuotaError

\* processChunk after the generation call has settled: the ChunkResult
processChunk(k, routing, settlement) ==
  IF settlement = "ok"
    THEN [chunk |-> k, model |-> routing.model,
          tokensUsed |-> routing.estimatedTokens, success |-> TRUE, error |-> ""]
    ELSE [chunk |-> k, model |-> routing.model,
          tokensUsed |-> 0, success |-> FALSE, error |-> settlement]

\* lines 735-738: the images of all chunks
RECURSIVE totalImages(_)
totalImages(cs) ==
  IF cs = << >> THEN 0 ELSE Len(Head(cs).images) + totalImages(Tail(cs))

successCount(results) == Len(SelectSeq(results, LAMBDA r : r.success))
failureCount(results) == Len(SelectSeq(results, LAMBDA r : ~r.success))

\* the StreamingProgress handed to onProgress: the fields that change from
\* one report to the next; kind stands for currentAction ("chunk":
\* Processing ..., "wait": Rate limited ..., "final": Aggregating results)
StreamingProgress(kind, currentChunk) ==
  [kind |-> kind,
   currentChunk |-> currentChunk,
   completedChunks |-> successCount(chunkResults),
   failedChunks |-> failureCount(chunkResults),
   preservedImages |-> preservedImages]

\* lines 741-797: loop test, progress report, admission check
CheckAdmission ==
  /\ pc = "loop"
  /\ i <= Len(chunks)
  /\ LET chunk == chunks[i]
         routing == routingMap[i]
         b == buckets[routing.model]
         ok == canProcess(b, chunk.estimatedTokens, now)
         waitTime == waitTimeForTokens(canProcessBucket(b, now),
                                       chunk.estimatedTokens, now)
     IN IF ok
          THEN /\ buckets' = [buckets EXCEPT ![routing.model] = canProcessBucket(b, now)]
               /\ progress' = Append(progress, StreamingProgress("chunk", i))
               /\ pc' = "dispatch"
               /\ UNCHANGED <<rateLimitingEvents, waited>>
          ELSE /\ buckets' = [buckets EXCEPT ![routing.model] =
                                waitTimeForTokensBucket(canProcessBucket(b, now),
                                                        chunk.estimatedTokens, now)]
               /\ IF waitTime > 0
                    THEN /\ rateLimitingEvents' = rateLimitingEvents + 1
                         /\ waited' = Append(waited, [chunk |-> i, waitTime |-> waitTime])
                         /\ progress' = progress \o
                              <<StreamingProgress("chunk", i),
                                StreamingProgress("wait", i)>>
                         /\ pc' = "waiting"
                    ELSE /\ progress' = Append(progress,
                                               StreamingProgress("chunk", i))
                         /\ pc' = "dispatch"
                         /\ UNCHANGED <<rateLimitingEvents, waited>>
  /\ UNCHANGED <<now, ledger, ret, chunks, routingMap, i, chunkResults, errors,
                 tokensUsed, preservedImages, inflight, dispatched, outcome,
                 streamingResult,
                 LLM_MODEL, frame, llmService>>

\* the sleep returns at once
WaitElapsed_noSleep ==
  /\ pc = "waiting"
  /\ now' = now
  /\ pc' = "dispatch"
  /\ UNCHANGED <<buckets, ledger, ret, chunks, routingMap, i, chunkResults,
                 errors, tokensUsed, rateLimitingEvents, preservedImages,
                 inflight, dispatched, waited, outcome, streamingResult, progress,
                 LLM_MODEL, frame, llmService>>

\* line 797: await waitFor(waitTime) resumes
WaitElapsed ==
  /\ pc = "waiting"
  /\ \E late \in Lateness :
       now' = now + waited[Len(waited)].waitTime + late
  /\ pc' = "dispatch"
  /\ UNCHANGED <<buckets, ledger, ret, chunks, routingMap, i, chunkResults,
                 errors, tokensUsed, rateLimitingEvents, preservedImages,
                 inflight, dispatched, waited, outcome, streamingResult, progress,
                 LLM_MODEL, frame, llmService>>

noFrame == [op |-> "none"]

\* lines 971-972: processWithGPT4o saves the setting and overrides it
processWithGPT4oEntry ==
  /\ frame' = [op |-> "processWithGPT4o", originalModel |-> LLM_MODEL]
  /\ LLM_MODEL' = "gpt-4o"

\* lines 977-982: the finally block, taken when generateRedesign returns and
\* when it throws; if (originalModel) is false for undefined and for ''
processWithGPT4oFinally ==
  /\ LLM_MODEL' = IF frame.originalModel \notin {Unset, ""}
                    THEN frame.originalModel ELSE LLM_MODEL
  /\ UNCHANGED frame

\* a generation call that is started and not awaited
Dispatch_notAwaited ==
  /\ pc = "dispatch"
  /\ inflight' = inflight \cup {i}
  /\ dispatched' = Append(dispatched,
       [chunk |-> i,
        admitted |-> canProcess(buckets[routingMap[i].model],
                                chunks[i].estimatedTokens, now)])
  /\ pc' = "loop"
  /\ i' = i + 1
  /\ IF routingMap[i].model = "gpt-5"
       THEN UNCHANGED <<LLM_MODEL, frame>>
       ELSE processWithGPT4oEntry
  /\ UNCHANGED <<now, buckets, ledger, ret, chunks, routingMap, chunkResults,
                 errors, tokensUsed, rateLimitingEvents, preservedImages,
                 waited, outcome, streamingResult, progress, llmService>>

\* line 802 and processChunk up to its await: the generation call starts,
\* through processWithGPT4o when the chunk is routed to gpt-4o (lines 930-935)
Dispatch ==
  /\ pc = "dispatch"
  /\ inflight' = inflight \cup {i}
  /\ dispatched' = Append(dispatched,
       [chunk |-> i,
        admitted |-> canProcess(buckets[routingMap[i].model],
                                chunks[i].estimatedTokens, now)])
  /\ pc' = "generating"
  /\ IF routingMap[i].model = "gpt-5"
       THEN UNCHANGED <<LLM_MODEL, frame>>
       ELSE processWithGPT4oEntry
  /\ UNCHANGED <<now, buckets, ledger, ret, chunks, routingMap, i, chunkResults,
                 errors, tokensUsed, rateLimitingEvents, preservedImages,
                 waited, outcome, streamingResult, progress, llmService>>

\* the index after the inter-chunk delay, or at once after the last chunk
nextPosition(k, n) == IF k < n THEN "delay" ELSE "loop"

\* the generation call returned: ChunkResult pushed, metrics updated, tokens
\* consumed from the limiter (lines 803-818, 845-847)
SettleSuccess(late) ==
  LET routing == routingMap[i]
      chunkResult == processChunk(i, routing, "ok")
      t == now + late
  IN /\ now' = t
     /\ chunkResults' = Append(chunkResults, chunkResult)
     /\ tokensUsed' = [tokensUsed EXCEPT ![routing.model] = @ + chunkResult.tokensUsed]
     /\ preservedImages' = preservedImages + Len(chunks[i].images)
     /\ buckets' = [buckets EXCEPT ![routing.model] =
                      consumeTokens(@, chunkResult.tokensUsed, t)]
     /\ ledger' = [ledger EXCEPT ![routing.model] =
                     Append(@, [timestamp |-> t, tokensUsed |-> chunkResult.tokensUsed])]
     /\ inflight' = inflight \ {i}
     /\ pc' = nextPosition(i, Len(chunks))
     /\ i' = IF i < Len(chunks) THEN i ELSE i + 1
     /\ UNCHANGED <<errors, outcome>>

\* a failure that sends the chunk back to the admission check
SettleFailure_retries(late, settlement) ==
  /\ now' = now + late
  /\ errors' = Append(errors, [chunk |-> i, error |-> settlement])
  /\ inflight' = inflight \ {i}
  /\ pc' = "loop"
  /\ UNCHANGED <<chunkResults, tokensUsed, preservedImages, buckets, ledger, i, outcome>>

\* a failure that is recorded and then ends the pass
SettleFailure_aborts(late, settlement) ==
  /\ now' = now + late
  /\ chunkResults' = Append(chunkResults, processChunk(i, routingMap[i], settlement))
  /\ errors' = Append(errors, [chunk |-> i, error |-> settlement])
  /\ inflight' = inflight \ {i}
  /\ pc' = "done"
  /\ outcome' = "threw"
  /\ UNCHANGED <<tokensUsed, preservedImages, buckets, ledger, i>>

\* a failure that still charges the chunk's estimate to the limiter
SettleFailure_charges(late, settlement) ==
  LET chunkResult == processChunk(i, routingMap[i], settlement)
      t == now + late
  IN /\ now' = t
     /\ chunkResults' = Append(chunkResults, chunkResult)
     /\ errors' = Append(errors, [chunk |-> i, error |-> chunkResult.error])
     /\ buckets' = [buckets EXCEPT ![routingMap[i].model] =
                      consumeTokens(@, routingMap[i].estimatedTokens, t)]
     /\ ledger' = [ledger EXCEPT ![routingMap[i].model] =
                     Append(@, [timestamp |-> t,
                                tokensUsed |-> routingMap[i].estimatedTokens])]
     /\ inflight' = inflight \ {i}
     /\ pc' = nextPosition(i, Len(chunks))
     /\ i' = IF i < Len(chunks) THEN i ELSE i + 1
     /\ UNCHANGED <<tokensUsed, preservedImages, outcome>>

\* a failure that still credits the chunk's images as preserved
SettleFailure_countsImages(late, settlement) ==
  LET chunkResult == processChunk(i, routingMap[i], settlement)
  IN /\ now' = now + late
     /\ chunkResults' = Append(chunkResults, chunkResult)
     /\ errors' = Append(errors, [chunk |-> i, error |-> chunkResult.error])
     /\ preservedImages' = preservedImages + Len(chunks[i].images)
     /\ inflight' = inflight \ {i}
     /\ pc' = nextPosition(i, Len(chunks))
     /\ i' = IF i < Len(chunks) THEN i ELSE i + 1
     /\ UNCHANGED <<tokensUsed, buckets, ledger, outcome>>

\* the generation call threw: processChunk catches it and returns a failed
\* ChunkResult, which is pushed and reported in errors (lines 949-962, 803,
\* 819-821, 845-847)
SettleFailure(late, settlement) ==
  LET chunkResult == processChunk(i, routingMap[i], settlement)
  IN /\ now' = now + late
     /\ chunkResults' = Append(chunkResults, chunkResult)
     /\ errors' = Append(errors, [chunk |-> i, error |-> chunkResult.error])
     /\ inflight' = inflight \ {i}
     /\ pc' = nextPosition(i, Len(chunks))
     /\ i' = IF i < Len(chunks) THEN i ELSE i + 1
     /\ UNCHANGED <<tokensUsed, preservedImages, buckets, ledger, outcome>>

\* the generation call settles; a call made through processWithGPT4o runs
\* its finally block first
GenerationSettles ==
  /\ pc = "generating"
  /\ \E late \in Lateness, settlement \in Settlements :
       IF settlement = "ok" THEN SettleSuccess(late)
                            ELSE SettleFailure(late, settlement)
  /\ IF routingMap[i].model = "gpt-5"
       THEN UNCHANGED <<LLM_MODEL, frame>>
       ELSE processWithGPT4oFinally
  /\ UNCHANGED <<ret, chunks, routingMap, rateLimitingEvents, dispatched, waited,
                 streamingResult, progress, llmService>>

\* the loop moves on without counting the chunk
DelayElapsed_sameChunk ==
  /\ pc = "delay"
  /\ \E late \in Lateness : now' = now + ChunkDelay + late
  /\ pc' = "loop"
  /\ UNCHANGED <<buckets, ledger, ret, chunks, routingMap, i, chunkResults, errors,
                 tokensUsed, rateLimitingEvents, preservedImages, inflight,
                 dispatched, waited, outcome, streamingResult, progress,
                 LLM_MODEL, frame, llmService>>

\* line 846: await waitFor(100) resumes, the loop moves to the next chunk
DelayElapsed ==
  /\ pc = "delay"
  /\ \E late \in Lateness : now' = now + ChunkDelay + late
  /\ i' = i + 1
  /\ pc' = "loop"
  /\ UNCHANGED <<buckets, ledger, ret, chunks, routingMap, chunkResults, errors,
                 tokensUsed, rateLimitingEvents, preservedImages, inflight,
                 dispatched, waited, outcome, streamingResult, progress,
                 LLM_MODEL, frame, llmService>>

\* a flag that wants every chunk to have succeeded
anySuccess_everySuccess(results) == \A k \in 1..Len(results) : results[k].success

\* line 875: chunkResults.some(r => r.success)
anySuccess(results) == \E k \in 1..Len(results) : results[k].success

\* line 992, with no filter: every result counts as successful
successfulResults_unfiltered(results) == results

\* line 992: chunkResults.filter(r => r.success)
successfulResults(results) == SelectSeq(results, LAMBDA r : r.success)

typeOrder ==
  <<"header", "nav", "hero", "main", "product", "gallery", "aside", "footer", "mixed">>

\* the results of ok whose chunk is of the t-th type of typeOrder or a later
\* one, type by type, each type in the order of ok
RECURSIVE resultsFromType(_, _, _)
resultsFromType(cs, ok, t) ==
  IF t > Len(typeOrder) THEN << >>
  ELSE SelectSeq(ok, LAMBDA r : cs[r.chunk].type = typeOrder[t])
         \o resultsFromType(cs, ok, t + 1)

\* no sort: the results stay in processing order
sortedResults_processingOrder(cs, ok) == ok

\* successfulResults.sort((a, b) => typeOrder.indexOf(a.chunk.type) -
\* typeOrder.indexOf(b.chunk.type)): a stable sort on a key with the values
\* of typeOrder, every chunk type being one of them
sortedResults(cs, ok) == resultsFromType(cs, ok, 1)

\* aggregateChunkResults: it throws when no result is successful; otherwise
\* htmlParts holds the fragment of each successful result, each fragment
\* standing as the index of its chunk, in typeOrder
aggregateChunkResults(results, cs) ==
  IF successfulResults(results) = << >>
    THEN [threw |-> TRUE, htmlParts |-> << >>]
    ELSE [threw |-> FALSE,
          htmlParts |->
            [k \in 1..Len(successfulResults(results)) |->
               sortedResults(cs, successfulResults(results))[k].chunk]]

\* line 885: preservedImages / totalImages as a fraction, 1 when there is no image
preservationRate(preserved, total) ==
  IF total > 0 THEN <<preserved, total>> ELSE <<1, 1>>

\* the StreamingResult: success, result and metrics.imagePreservation; its
\* chunks, errors, tokensUsed and rateLimitingEvents are the variables of
\* those names
NoStreamingResult ==
  [success |-> FALSE,
   result |-> [htmlParts |-> << >>],
   imagePreservation |-> [total |-> 0, preserved |-> 0, rate |-> <<1, 1>>]]

\* lines 850-895: aggregateChunkResults throws when no chunk succeeded;
\* otherwise the final progress is reported and the StreamingResult returned
Aggregate ==
  /\ pc = "loop"
  /\ i > Len(chunks)
  /\ LET aggregatedResult == aggregateChunkResults(chunkResults, chunks)
     IN IF aggregatedResult.threw
          THEN /\ outcome' = "threw"
               /\ UNCHANGED <<streamingResult, progress>>
          ELSE /\ outcome' = "returned"
               /\ progress' = Append(progress, StreamingProgress("final", Len(chunks)))
               /\ streamingResult' =
                    [success |-> anySuccess(chunkResults),
                     result |-> [htmlParts |-> aggregatedResult.htmlParts],
                     imagePreservation |->
                       [total |-> totalImages(chunks),
                        preserved |-> preservedImages,
                        rate |-> preservationRate(preservedImages,
                                                  totalImages(chunks))]]
  /\ pc' = "done"
  /\ UNCHANGED <<now, buckets, ledger, ret, chunks, routingMap, i, chunkResults,
                 errors, tokensUsed, rateLimitingEvents, preservedImages,
                 inflight, dispatched, waited,
                 LLM_MODEL, frame, llmService>>

noCall == [op |-> "none"]

InitLimiter ==
  /\ now = 0
  /\ buckets = [m \in Models |-> NewTokenBucket(m)]
  /\ ledger = [m \in Models |-> << >>]
  /\ ret = noCall

\* the pass on entry to its chunk loop: the chunk list of chunkContent, the
\* routing of all chunks done against a fresh limiter, counters at zero
\* (lines 708-739); the service runs with LLM_MODEL not set, the model then
\* being gpt-5 (llmService.ts line 18)
Init ==
  /\ now = 0
  /\ ledger = [m \in Models |-> << >>]
  /\ ret = noCall
  /\ chunks \in {chunkContent(s) : s \in RawSections}
  /\ LET r == routeMultipleChunks(chunks, [m \in Models |-> NewTokenBucket(m)], 0)
     IN /\ routingMap = r.map
        /\ buckets = r.buckets
  /\ i = 1
  /\ pc = "loop"
  /\ chunkResults = << >>
  /\ errors = << >>
  /\ tokensUsed = [m \in Models |-> 0]
  /\ rateLimitingEvents = 0
  /\ preservedImages = 0
  /\ inflight = {}
  /\ dispatched = << >>
  /\ waited = << >>
  /\ outcome = "none"
  /\ streamingResult = NoStreamingResult
  /\ progress = << >>
  /\ LLM_MODEL = Unset
  /\ llmService = NewLLMService(LLM_MODEL)
  /\ frame = noFrame

Next ==
  \/ CheckAdmission
  \/ WaitElapsed
  \/ Dispatch
  \/ GenerationSettles
  \/ DelayElapsed
  \/ Aggregate

Spec == Init /\ [][Next]_vars

\* the single task of the pass always takes its next step: every generation
\* call settles and every timer fires
FairSpec == Init /\ [][Next]_vars /\ WF_vars(Next)

----------------------------------------------------------------------------
(* The limiter under arbitrary calls: any sequence of consumeTokens,       *)
(* canProcess and waitTimeForTokens calls and clock advances               *)

LimiterModel == "gpt-5"
RequestSizes == 0..(MaxTokensGpt5 + 1)

ConsumeCall ==
  /\ Len(ledger[LimiterModel]) < MaxConsumes
  /\ \E n \in RequestSizes :
       /\ buckets' = [buckets EXCEPT ![LimiterModel] = consumeTokens(@, n, now)]
       /\ ledger' = [ledger EXCEPT ![LimiterModel] =
                       Append(@, [timestamp |-> now, tokensUsed |-> n])]
  /\ ret' = noCall
  /\ UNCHANGED <<now, passVars>>

\* what canProcess leaves behind is the same for every tokenCount; the value
\* it returns for tokenCount n is canProcess(buckets[LimiterModel], n, now)
CanProcessCall ==
  /\ buckets' = [buckets EXCEPT ![LimiterModel] = canProcessBucket(@, now)]
  /\ ret' = [op |-> "canProcess"]
  /\ UNCHANGED <<now, ledger, passVars>>

\* a denied call appends the value it returns to waitTimes
WaitTimeCall ==
  /\ Len(buckets[LimiterModel].waitTimes) < MaxWaitCalls
  /\ \E n \in RequestSizes :
       buckets' = [buckets EXCEPT ![LimiterModel] =
                     waitTimeForTokensBucket(@, n, now)]
  /\ ret' = [op |-> "waitTimeForTokens"]
  /\ UNCHANGED <<now, ledger, passVars>>

GetAvailableTokensCall ==
  /\ buckets' = [buckets EXCEPT ![LimiterModel] = getAvailableTokensBucket(@, now)]
  /\ ret' = [op |-> "getAvailableTokens"]
  /\ UNCHANGED <<now, ledger, passVars>>

GetMetricsCall ==
  /\ buckets' = [buckets EXCEPT ![LimiterModel] = getMetricsBucket(@, now)]
  /\ ret' = [op |-> "getMetrics"]
  /\ UNCHANGED <<now, ledger, passVars>>

RecordRateLimitErrorCall ==
  /\ buckets[LimiterModel].errors429Count < MaxErrors
  /\ buckets' = [buckets EXCEPT ![LimiterModel] = recordRateLimitError(@)]
  /\ ret' = noCall
  /\ UNCHANGED <<now, ledger, passVars>>

ClockAdvance ==
  /\ now < MaxClock
  /\ now' = now + 1
  /\ ret' = noCall
  /\ UNCHANGED <<buckets, ledger, passVars>>

InitIdle ==
  /\ InitLimiter
  /\ chunks = << >>
  /\ routingMap = << >>
  /\ i = 0
  /\ pc = "idle"
  /\ chunkResults = << >>
  /\ errors = << >>
  /\ tokensUsed = [m \in Models |-> 0]
  /\ rateLimitingEvents = 0
  /\ preservedImages = 0
  /\ inflight = {}
  /\ dispatched = << >>
  /\ waited = << >>
  /\ outcome = "none"
  /\ streamingResult = NoStreamingResult
  /\ progress = << >>
  /\ LLM_MODEL = Unset
  /\ llmService = NewLLMService(LLM_MODEL)
  /\ frame = noFrame

NextLimiter ==
  \/ ConsumeCall
  \/ CanProcessCall
  \/ WaitTimeCall
  \/ GetAvailableTokensCall
  \/ GetMetricsCall
  \/ RecordRateLimitErrorCall
  \/ ClockAdvance

SpecLimiter == InitIdle /\ [][NextLimiter]_vars

\* the limiter under the calls that decide a wait: consumption, the wait
\* request and the passing of time
NextWaiting ==
  \/ ConsumeCall
  \/ WaitTimeCall
  \/ ClockAdvance

SpecWaiting == InitIdle /\ [][NextWaiting]_vars

----------------------------------------------------------------------------
(* aggregateChunkResults on the results of any pass: documents with typed  *)
(* sections and leftover markup, every chunk settled one way or the other  *)

MaxSections == 3     \* longest chunk list handed to the aggregation

AggregateKinds ==
  {Header, Main, Footer} \X {<< >>, <<"critical">>} \X {1}

\* typed sections in extraction order, then at most one piece of leftover markup
AggregateSections ==
  UNION {{s \in [1..n -> AggregateKinds \cup {<<Mixed, << >>, 1>>}] :
            /\ \A k \in 1..(n - 1) : s[k][1] <= s[k + 1][1]
            /\ \A k \in 1..(n - 1) : s[k][1] # Mixed} : n \in 0..MaxSections}

InitAggregate ==
  /\ now = 0
  /\ ledger = [m \in Models |-> << >>]
  /\ ret = noCall
  /\ chunks \in {chunkContent(s) : s \in AggregateSections}
  /\ LET r == routeMultipleChunks(chunks, [m \in Models |-> NewTokenBucket(m)], 0)
     IN /\ routingMap = r.map
        /\ buckets = r.buckets
  /\ \E settled \in [1..Len(chunks) -> {"ok", OtherError}] :
       chunkResults = [k \in 1..Len(chunks) |->
                         processChunk(k, routingMap[k], settled[k])]
  /\ i = 0
  /\ pc = "aggregate"
  /\ errors = << >>
  /\ tokensUsed = [m \in Models |-> 0]
  /\ rateLimitingEvents = 0
  /\ preservedImages = 0
  /\ inflight = {}
  /\ dispatched = << >>
  /\ waited = << >>
  /\ outcome = "none"
  /\ streamingResult = NoStreamingResult
  /\ progress = << >>
  /\ LLM_MODEL = Unset
  /\ llmService = NewLLMService(LLM_MODEL)
  /\ frame = noFrame

\* one call of aggregateChunkResults: it throws or returns the document
AggregateCall ==
  /\ pc = "aggregate"
  /\ LET aggregatedResult == aggregateChunkResults(chunkResults, chunks)
     IN /\ outcome' = IF aggregatedResult.threw THEN "threw" ELSE "returned"
        /\ streamingResult' =
             [streamingResult EXCEPT
                !.result = [htmlParts |-> aggregatedResult.htmlParts]]
  /\ pc' = "aggregated"
  /\ UNCHANGED <<now, buckets, ledger, ret, chunks, routingMap, i, chunkResults,
                 errors, tokensUsed, rateLimitingEvents, preservedImages,
                 inflight, dispatched, waited, progress,
                 LLM_MODEL, frame, llmService>>

NextAggregate == AggregateCall

SpecAggregate == InitAggregate /\ [][NextAggregate]_vars

----------------------------------------------------------------------------
(* The router on the chunk list of any document: routeMultipleChunks on    *)
(* the whole list, routeContentChunk on one chunk                          *)

MaxRouted == 3       \* longest chunk list handed to the router

RouterKinds ==
  ({Header, Footer} \X {<< >>} \X {1})
    \cup ({Hero} \X {<< >>, <<"hero">>, <<"decorative">>} \X {1})
    \cup ({Main} \X {<< >>, <<"critical">>, <<"product">>, <<"hero">>, <<"decorative">>}
                \X {1, 3})

RouterSections ==
  UNION {{s \in [1..n -> RouterKinds] :
            \A k \in 1..(n - 1) : s[k][1] <= s[k + 1][1]} : n \in 1..MaxRouted}

InitRouter ==
  /\ InitLimiter
  /\ chunks \in {chunkContent(s) : s \in RouterSections}
  /\ routingMap = << >>
  /\ i = 0
  /\ pc = "route"
  /\ chunkResults = << >>
  /\ errors = << >>
  /\ tokensUsed = [m \in Models |-> 0]
  /\ rateLimitingEvents = 0
  /\ preservedImages = 0
  /\ inflight = {}
  /\ dispatched = << >>
  /\ waited = << >>
  /\ outcome = "none"
  /\ streamingResult = NoStreamingResult
  /\ progress = << >>
  /\ LLM_MODEL = Unset
  /\ llmService = NewLLMService(LLM_MODEL)
  /\ frame = noFrame

\* modelRouter.routeMultipleChunks(chunks); ret keeps the two allocation
\* counters as the loop leaves them
RouteMultipleCall ==
  /\ pc = "route"
  /\ LET r == routeMultipleChunks(chunks, buckets, now)
     IN /\ routingMap' = r.map
        /\ buckets' = r.buckets
        /\ ret' = [op |-> "routeMultipleChunks",
                   gpt5TokensUsed |-> r.gpt5TokensUsed,
                   gpt4oTokensUsed |-> r.gpt4oTokensUsed]
  /\ pc' = "routedAll"
  /\ UNCHANGED <<now, ledger, chunks, i, chunkResults, errors, tokensUsed,
                 rateLimitingEvents, preservedImages, inflight, dispatched,
                 waited, outcome, streamingResult, progress,
                 LLM_MODEL, frame, llmService>>

\* modelRouter.routeContentChunk(chunks[k])
RouteContentCall ==
  /\ pc = "route"
  /\ \E k \in 1..Len(chunks) :
       LET r == routeContentChunk(chunks[k], buckets, now)
       IN /\ routingMap' = (k :> r.selection)
          /\ buckets' = r.buckets
  /\ pc' = "routedOne"
  /\ UNCHANGED <<now, ledger, ret, chunks, i, chunkResults, errors, tokensUsed,
                 rateLimitingEvents, preservedImages, inflight, dispatched,
                 waited, outcome, streamingResult, progress,
                 LLM_MODEL, frame, llmService>>

\* modelRouter.validateRoutingFeasibility(chunks)
ValidateFeasibilityCall ==
  /\ pc = "route"
  /\ ret' = [op |-> "validateRoutingFeasibility",
             result |-> validateRoutingFeasibility(chunks)]
  /\ pc' = "validated"
  /\ UNCHANGED <<now, buckets, ledger, chunks, routingMap, i, chunkResults, errors,
                 tokensUsed, rateLimitingEvents, preservedImages, inflight,
                 dispatched, waited, outcome, streamingResult, progress,
                 LLM_MODEL, frame, llmService>>

NextRouter ==
  \/ RouteMultipleCall
  \/ RouteContentCall
  \/ ValidateFeasibilityCall

SpecRouter == InitRouter /\ [][NextRouter]_vars

----------------------------------------------------------------------------
(* The pass over a document of one section, under every value the model    *)
(* setting of the process can have when the pass starts                    *)

ModelSettings == {Unset, "", "gpt-5", "gpt-4o", "gpt-4-turbo"}

OneSection == {s \in [1..1 -> SectionKinds] : TRUE}

InitSetting ==
  /\ now = 0
  /\ ledger = [m \in Models |-> << >>]
  /\ ret = noCall
  /\ chunks \in {chunkContent(s) : s \in OneSection}
  /\ LET r == routeMultipleChunks(chunks, [m \in Models |-> NewTokenBucket(m)], 0)
     IN /\ routingMap = r.map
        /\ buckets = r.buckets
  /\ i = 1
  /\ pc = "loop"
  /\ chunkResults = << >>
  /\ errors = << >>
  /\ tokensUsed = [m \in Models |-> 0]
  /\ rateLimitingEvents = 0
  /\ preservedImages = 0
  /\ inflight = {}
  /\ dispatched = << >>
  /\ waited = << >>
  /\ outcome = "none"
  /\ streamingResult = NoStreamingResult
  /\ progress = << >>
  /\ LLM_MODEL \in ModelSettings
  /\ llmService = NewLLMService(LLM_MODEL)
  /\ frame = noFrame

\* the steps of a pass over a single chunk: no delay between chunks
NextSetting ==
  \/ CheckAdmission
  \/ WaitElapsed
  \/ Dispatch
  \/ GenerationSettles
  \/ Aggregate

SpecSetting == InitSetting /\ [][NextSetting]_vars

----------------------------------------------------------------------------
(* Two passes on the one rateLimiterManager of the process: the pass of    *)
(* the variables above over a single chunk, and one chunk of a second pass *)
(* whose awaits interleave with it.  ret records the second pass: the      *)
(* model and estimate of its chunk, what canProcess returned to it, the    *)
(* time it sleeps for, and whether its generation call has settled.        *)

InitShared ==
  /\ InitSetting
  /\ LLM_MODEL = Unset

otherPassVars == <<chunks, routingMap, i, pc, chunkResults, errors, tokensUsed,
                   rateLimitingEvents, preservedImages, inflight, dispatched,
                   waited, outcome, streamingResult, progress, LLM_MODEL, frame, llmService>>

\* an admission check that books the estimate at once
OtherPassAdmission_reserves ==
  /\ ret = noCall
  /\ \E m \in Models, n \in RequestSizes :
       LET b == buckets[m]
           ok == canProcess(b, n, now)
           waitTime == waitTimeForTokens(canProcessBucket(b, now), n, now)
       IN /\ buckets' = [buckets EXCEPT ![m] =
                          IF ok THEN consumeTokens(b, n, now)
                          ELSE waitTimeForTokensBucket(canProcessBucket(b, now), n, now)]
          /\ ledger' = IF ok
                         THEN [ledger EXCEPT ![m] =
                                 Append(@, [timestamp |-> now, tokensUsed |-> n])]
                         ELSE ledger
          /\ ret' = [op |-> "canProcess", model |-> m, tokenCount |-> n,
                     returned |-> ok, waitTime |-> IF ok THEN 0 ELSE waitTime,
                     settled |-> FALSE]
  /\ UNCHANGED now
  /\ UNCHANGED otherPassVars

\* lines 770-797 in the second pass: canProcess, and on a refusal
\* waitTimeForTokens, whose result the pass then sleeps for
OtherPassAdmission ==
  /\ ret = noCall
  /\ \E m \in Models, n \in RequestSizes :
       LET b == buckets[m]
           ok == canProcess(b, n, now)
           waitTime == waitTimeForTokens(canProcessBucket(b, now), n, now)
       IN /\ buckets' = [buckets EXCEPT ![m] =
                          IF ok THEN canProcessBucket(b, now)
                          ELSE waitTimeForTokensBucket(canProcessBucket(b, now), n, now)]
          /\ ret' = [op |-> "canProcess", model |-> m, tokenCount |-> n,
                     returned |-> ok, waitTime |-> IF ok THEN 0 ELSE waitTime,
                     settled |-> FALSE]
  /\ UNCHANGED <<now, ledger>>
  /\ UNCHANGED otherPassVars

\* lines 797-821 in the second pass: the sleep, if any, then the generation
\* call, which consumes the estimate when it succeeds and nothing otherwise
OtherPassSettles ==
  /\ ret.op = "canProcess"
  /\ ~ret.settled
  /\ \E late \in Lateness, settlement \in Settlements :
       LET t == now + ret.waitTime + late
       IN /\ now' = t
          /\ IF settlement = "ok"
               THEN /\ buckets' = [buckets EXCEPT ![ret.model] =
                                     consumeTokens(@, ret.tokenCount, t)]
                    /\ ledger' = [ledger EXCEPT ![ret.model] =
                                    Append(@, [timestamp |-> t,
                                               tokensUsed |-> ret.tokenCount])]
               ELSE UNCHANGED <<buckets, ledger>>
  /\ ret' = [ret EXCEPT !.settled = TRUE]
  /\ UNCHANGED otherPassVars

NextShared ==
  \/ CheckAdmission
  \/ WaitElapsed
  \/ Dispatch
  \/ GenerationSettles
  \/ Aggregate
  \/ OtherPassAdmission
  \/ OtherPassSettles

SpecShared == InitShared /\ [][NextShared]_vars

----------------------------------------------------------------------------
(* ContentChunker.chunkContent on a document.  The body of the document is *)
(* a sequence of elements in document order; an element has a parent (0:   *)
(* the body), the section type whose selector it matches (Plain: none),    *)
(* the length in characters of its own markup, and the importance of each  *)
(* img with a src that is its own.  Every img has a src of its own, none   *)
(* the substring of another.                                               *)

Plain == 0
ElementTypes == {Plain, Header, Hero, Main, Footer}
MarkupLengths == {20, 60, 120}
ElementImages == {<< >>, <<"critical">>, <<"decorative">>}

MinSectionLength == 50       \* line 219: sectionHtml.length < 50 is skipped
MinRemainingLength == 100    \* line 269: remainingHtml.trim().length > 100

\* the length of a section matters on the two sides of 50, the length of
\* plain markup also on the two sides of 100
Elements(k) ==
  [parent : 0..(k - 1), type : {Plain}, length : MarkupLengths,
   images : ElementImages]
    \cup [parent : 0..(k - 1), type : ElementTypes \ {Plain},
          length : {n \in MarkupLengths : n <= MinRemainingLength},
          images : ElementImages]

\* the element e and the elements it lies in, innermost first
RECURSIVE ancestorsOrSelf(_, _)
ancestorsOrSelf(doc, e) ==
  IF e = 0 THEN {} ELSE {e} \cup ancestorsOrSelf(doc, doc[e].parent)

\* document order: an element opens inside the element before it, or after
\* one or more of the open elements have closed
Documents ==
  UNION {{doc \in [1..n -> Elements(n)] :
            \A e \in 1..n :
              /\ doc[e].parent < e
              /\ e > 1 => doc[e].parent \in {0} \cup ancestorsOrSelf(doc, e - 1)} :
         n \in 0..MaxNodes}

\* analyzeImages: count is the number of img elements with a src
RECURSIVE analyzeImages(_)
analyzeImages(doc) ==
  IF doc = << >> THEN [count |-> 0]
  ELSE [count |-> Len(doc[Len(doc)].images)
                    + analyzeImages(SubSeq(doc, 1, Len(doc) - 1)).count]

\* the elements still below e once remove() was called on the elements of
\* removed: e and what it contains, less what was taken out of it
subtree(doc, e, removed) ==
  {d \in 1..Len(doc) :
     /\ e \in ancestorsOrSelf(doc, d)
     /\ \A r \in removed \ {e} :
          ~(r \in ancestorsOrSelf(doc, d) /\ e \in ancestorsOrSelf(doc, r))}

\* the elements still in the document
attached(doc, removed) ==
  {d \in 1..Len(doc) : ancestorsOrSelf(doc, d) \cap removed = {}}

\* length of the markup of a set of elements, and their images in document order
RECURSIVE markupLength(_, _, _)
markupLength(doc, es, e) ==
  IF e > Len(doc) THEN 0
  ELSE (IF e \in es THEN doc[e].length ELSE 0) + markupLength(doc, es, e + 1)

RECURSIVE imagesOf(_, _, _)
imagesOf(doc, es, e) ==
  IF e > Len(doc) THEN << >>
  ELSE (IF e \in es THEN doc[e].images ELSE << >>) \o imagesOf(doc, es, e + 1)

\* Math.ceil(length / 4)
estimateTokens(length) == (length + 3) \div 4

\* lines 215-264, $sections.each: the elements that $(selector) found, in
\* document order from element e on; an element is serialised as it is when
\* its turn comes, pushed unless tiny, and removed
RECURSIVE eachSection(_, _, _, _, _)
eachSection(doc, sectionType, sections, e, acc) ==
  IF e > Len(doc) THEN acc
  ELSE IF e \notin sections THEN eachSection(doc, sectionType, sections, e + 1, acc)
  ELSE LET sectionHtml == subtree(doc, e, acc.removed)
       IN IF markupLength(doc, sectionHtml, 1) < MinSectionLength
            THEN eachSection(doc, sectionType, sections, e + 1, acc)
            ELSE eachSection(doc, sectionType, sections, e + 1,
                   [chunks |->
                      Append(acc.chunks,
                        [html |-> sectionHtml]
                          @@ sectionChunk(Len(acc.chunks) + 1,
                               sectionTypes[sectionType],
                               imagesOf(doc, sectionHtml, 1),
                               estimateTokens(markupLength(doc, sectionHtml, 1)))),
                    removed |-> acc.removed \cup {e}])

\* lines 211-266: for each section type in order, $sections = $(selector) is
\* taken once, from the document as the earlier types left it
RECURSIVE sectionLoop(_, _, _)
sectionLoop(doc, sectionType, acc) ==
  IF sectionType > Len(sectionTypes) THEN acc
  ELSE sectionLoop(doc, sectionType + 1,
         eachSection(doc, sectionType,
           {e \in attached(doc, acc.removed) : doc[e].type = sectionType}, 1, acc))

decorativeImages(images) == SelectSeq(images, LAMBDA img : img = "decorative")

\* a remainder that becomes a chunk whatever its length
remainingChunk_anyLength(doc, acc) ==
  LET remainingHtml == attached(doc, acc.removed)
      remainingImages == decorativeImages(imagesOf(doc, remainingHtml, 1))
  IN IF markupLength(doc, remainingHtml, 1) > 0
       THEN <<[html |-> remainingHtml]
                @@ mixedChunk(Len(acc.chunks) + 1, remainingImages,
                              estimateTokens(markupLength(doc, remainingHtml, 1)))>>
       ELSE << >>

\* lines 268-289: the markup left in the body becomes a mixed chunk when it
\* is longer than 100 characters; its images are the decorative ones
remainingChunk(doc, acc) ==
  LET remainingHtml == attached(doc, acc.removed)
      remainingImages == decorativeImages(imagesOf(doc, remainingHtml, 1))
  IN IF markupLength(doc, remainingHtml, 1) > MinRemainingLength
       THEN <<[html |-> remainingHtml]
                @@ mixedChunk(Len(acc.chunks) + 1, remainingImages,
                              estimateTokens(markupLength(doc, remainingHtml, 1)))>>
       ELSE << >>

\* chunkContent(html): the chunks it returns, each with the elements its html holds
chunkDocument(doc) ==
  LET acc == sectionLoop(doc, 1, [chunks |-> << >>, removed |-> {}])
  IN sortChunksByPriority(acc.chunks \o remainingChunk(doc, acc))

InitNoPass ==
  /\ InitLimiter
  /\ routingMap = << >>
  /\ i = 0
  /\ chunkResults = << >>
  /\ errors = << >>
  /\ tokensUsed = [m \in Models |-> 0]
  /\ rateLimitingEvents = 0
  /\ preservedImages = 0
  /\ inflight = {}
  /\ dispatched = << >>
  /\ waited = << >>
  /\ outcome = "none"
  /\ streamingResult = NoStreamingResult
  /\ progress = << >>
  /\ LLM_MODEL = Unset
  /\ llmService = NewLLMService(LLM_MODEL)

InitChunker ==
  /\ InitNoPass
  /\ chunks = << >>
  /\ pc = "chunk"
  /\ frame \in {[op |-> "chunkContent", html |-> doc] : doc \in Documents}

\* ContentChunker.chunkContent(html); ret keeps the imageAnalysis it returns
ChunkContentCall ==
  /\ pc = "chunk"
  /\ chunks' = chunkDocument(frame.html)
  /\ ret' = [op |-> "chunkContent", imageAnalysis |-> analyzeImages(frame.html)]
  /\ pc' = "chunked"
  /\ UNCHANGED <<now, buckets, ledger, routingMap, i, chunkResults, errors,
                 tokensUsed, rateLimitingEvents, preservedImages, inflight,
                 dispatched, waited, outcome, streamingResult, progress,
                 LLM_MODEL, frame, llmService>>

NextChunker == ChunkContentCall

SpecChunker == InitChunker /\ [][NextChunker]_vars

----------------------------------------------------------------------------
(* ContentOptimizer.validateImagePreservation.  The original markup is the *)
(* sequence of its img tags with a quoted src, each with the importance    *)
(* the image analysis gives it; the optimized markup is the set of the     *)
(* srcs of its img tags.                                                   *)

DataUrl == "data:image/png;base64,iVBOR"
ProductUrl == "/img/product-1.png"
HeroUrl == "/img/hero.jpg"
PlainUrl == "/img/team.jpg"
Srcs == {DataUrl, ProductUrl, HeroUrl, PlainUrl}

Importances == {"critical", "product", "hero", "decorative"}

\* the img tags of a document: one src has one importance
OriginalMarkups ==
  UNION {{h \in [1..n -> [src : Srcs, importance : Importances]] :
            \A a, b \in 1..n : h[a].src = h[b].src => h[a] = h[b]} :
         n \in 0..MaxImages}

\* new Set(...): the srcs in the order of their first occurrence
RECURSIVE srcSet(_)
srcSet(h) ==
  IF h = << >> THEN << >>
  ELSE LET before == srcSet(SubSeq(h, 1, Len(h) - 1))
           src == h[Len(h)].src
       IN IF \E k \in 1..Len(before) : before[k] = src
            THEN before ELSE Append(before, src)

\* line 341: src.startsWith('data:image/') || src.includes('product') ||
\* src.includes('hero')
looksCritical(src) == src \in {DataUrl, ProductUrl, HeroUrl}

\* validateImagePreservation: each message stands as the src it names
validateImagePreservation(originalHtml, optimizedSrcs) ==
  LET missing == SelectSeq(srcSet(originalHtml), LAMBDA src : src \notin optimizedSrcs)
      issues == SelectSeq(missing, looksCritical)
      warnings == SelectSeq(missing, LAMBDA src : ~looksCritical(src))
  IN [success |-> Len(issues) = 0, issues |-> issues, warnings |-> warnings]

InitValidate ==
  /\ InitNoPass
  /\ chunks = << >>
  /\ pc = "validate"
  /\ frame \in {[op |-> "validateImagePreservation",
                  originalHtml |-> h, optimizedHtml |-> o] :
                 h \in OriginalMarkups, o \in SUBSET Srcs}

\* ContentOptimizer.validateImagePreservation(originalHtml, optimizedHtml)
ValidateImagePreservationCall ==
  /\ pc = "validate"
  /\ ret' = [op |-> "validateImagePreservation",
             result |-> validateImagePreservation(frame.originalHtml,
                                                  frame.optimizedHtml)]
  /\ pc' = "validatedImages"
  /\ UNCHANGED <<now, buckets, ledger, chunks, routingMap, i, chunkResults, errors,
                 tokensUsed, rateLimitingEvents, preservedImages, inflight,
                 dispatched, waited, outcome, streamingResult, progress,
                 LLM_MODEL, frame, llmService>>

NextValidate == ValidateImagePreservationCall

SpecValidate == InitValidate /\ [][NextValidate]_vars

----------------------------------------------------------------------------
(* ContentChunker.splitOversizedChunks.  A chunk handed to it carries, as  *)
(* subSections, what $('section, article, div') finds in its html: for     *)
(* each element the estimate of its markup and the images of the chunk     *)
(* whose src occurs in it.  The id of a chunk is <<k>>, the id of its n-th *)
(* sub-chunk <<k, n>>; the html of a sub-chunk stands as the index of the  *)
(* sub-section it is the markup of.                                        *)

SplitCeiling == 2                 \* maxTokensPerChunk, in units of 10000 tokens
SplitEstimates == {1, 3}          \* within the ceiling, above it
SplitImages == {<< >>, <<"critical">>}
SubSectionCounts == 0..2          \* none, one, more than one

subImages(images) == {<< >>, images}

SplitChunks(k) ==
  UNION {UNION {{[id |-> <<k>>, estimatedTokens |-> t, images |-> imgs,
                  subSections |-> subs] :
                   subs \in [1..n -> [estimatedTokens : {u \in SplitEstimates : u <= t},
                                       images : subImages(imgs)]]} :
                n \in SubSectionCounts} :
         t \in SplitEstimates, imgs \in SplitImages}

SplitInputs ==
  UNION {{cs \in [1..n -> UNION {SplitChunks(k) : k \in 1..n}] :
            \A k \in 1..n : cs[k].id = <<k>>} : n \in 1..MaxSplit}

\* lines 418-432: one sub-chunk for each sub-section, from the n-th on, whose
\* estimate is within the ceiling
RECURSIVE subChunks(_, _, _, _)
subChunks(chunk, maxTokensPerChunk, n, subChunkId) ==
  IF n > Len(chunk.subSections) THEN << >>
  ELSE IF chunk.subSections[n].estimatedTokens <= maxTokensPerChunk
    THEN <<[id |-> Append(chunk.id, subChunkId),
            html |-> n,
            estimatedTokens |-> chunk.subSections[n].estimatedTokens,
            images |-> chunk.subSections[n].images,
            subSections |-> << >>]>>
           \o subChunks(chunk, maxTokensPerChunk, n + 1, subChunkId + 1)
    ELSE subChunks(chunk, maxTokensPerChunk, n + 1, subChunkId)

\* the body of the for loop: what one chunk adds to result
splitChunk(chunk, maxTokensPerChunk) ==
  IF chunk.estimatedTokens <= maxTokensPerChunk THEN <<chunk>>
  ELSE IF Len(chunk.subSections) > 1
    THEN subChunks(chunk, maxTokensPerChunk, 1, 1)
    ELSE <<chunk>>

RECURSIVE splitOversizedChunks(_, _)
splitOversizedChunks(cs, maxTokensPerChunk) ==
  IF cs = << >> THEN << >>
  ELSE splitChunk(Head(cs), maxTokensPerChunk)
         \o splitOversizedChunks(Tail(cs), maxTokensPerChunk)

InitSplit ==
  /\ InitNoPass
  /\ chunks \in SplitInputs
  /\ pc = "split"
  /\ frame = [op |-> "splitOversizedChunks", maxTokensPerChunk |-> SplitCeiling]

\* ContentChunker.splitOversizedChunks(chunks, maxTokensPerChunk)
SplitOversizedChunksCall ==
  /\ pc = "split"
  /\ ret' = [op |-> "splitOversizedChunks",
             result |-> splitOversizedChunks(chunks, frame.maxTokensPerChunk)]
  /\ pc' = "splitDone"
  /\ UNCHANGED <<now, buckets, ledger, chunks, routingMap, i, chunkResults, errors,
                 tokensUsed, rateLimitingEvents, preservedImages, inflight,
                 dispatched, waited, outcome, streamingResult, progress,
                 LLM_MODEL, frame, llmService>>

NextSplit == SplitOversizedChunksCall

SpecSplit == InitSplit /\ [][NextSplit]_vars

----------------------------------------------------------------------------
(* LLMService.callLLM.  A reply of the API is a text, an empty body, or an *)
(* error with its status (0: an error without a status) and whether it     *)
(* sends callLLM to the chat completions API: its message includes         *)
(* 'responses', or it is the TypeError of a client without                 *)
(* responses.create.  frame holds the locals attempt and lastError, and    *)
(* attempts, a history of how each attempt ended.                          *)

Statuses == {0, 400, 401, 404, 429, 499, 500, 599, 600}

Replies ==
  {[kind |-> "text"], [kind |-> "empty"]}
    \cup [kind : {"error"}, status : Statuses, responses : BOOLEAN]

\* lines 54-56: the errors of the Responses API that are answered with a
\* chat completions request
shouldFallback(error) ==
  error.status = 404 \/ error.status = 400 \/ error.responses

\* a retry after any failure of the first attempt
shouldRetry_anyError(attempt, error) == attempt = 0

\* line 79: attempt === 0 && (status === 429 || (status >= 500 && status < 600))
shouldRetry(attempt, error) ==
  attempt = 0 /\ (error.status = 429 \/ (error.status >= 500 /\ error.status < 600))

\* new Error("Empty response from Responses API"), new Error("Empty LLM response")
EmptyResponse == [kind |-> "error", status |-> 0, responses |-> FALSE]

InitCallLLM ==
  /\ InitNoPass
  /\ chunks = << >>
  /\ pc = "responses"
  /\ frame = [op |-> "callLLM", attempt |-> 0, lastError |-> "null", attempts |-> << >>]

callLLMVars == <<now, buckets, ledger, chunks, routingMap, i, chunkResults, errors,
                 tokensUsed, rateLimitingEvents, preservedImages, inflight,
                 dispatched, waited, outcome, streamingResult, progress,
                 LLM_MODEL, llmService>>

\* lines 75-89: the catch of an attempt, and the throw after the loop
attemptFails(error) ==
  /\ frame' = [frame EXCEPT !.lastError = error, !.attempts = Append(@, error)]
  /\ IF shouldRetry(frame.attempt, error)
       THEN pc' = "retryDelay" /\ UNCHANGED ret
       ELSE pc' = "threw" /\ ret' = [op |-> "callLLM", threw |-> error]

attemptReturns ==
  /\ frame' = [frame EXCEPT !.attempts = Append(@, [kind |-> "text"])]
  /\ pc' = "returned"
  /\ ret' = [op |-> "callLLM", returned |-> "text"]

\* lines 28-56, 73: the request to the Responses API settles
ResponsesCreate ==
  /\ pc = "responses"
  /\ \E reply \in Replies :
       IF reply.kind = "text" THEN attemptReturns
       ELSE IF reply.kind = "empty" THEN attemptFails(EmptyResponse)
       ELSE IF shouldFallback(reply)
         THEN pc' = "completions" /\ UNCHANGED <<frame, ret>>
         ELSE attemptFails(reply)
  /\ UNCHANGED callLLMVars

\* lines 58-69: the request to the chat completions API settles
ChatCompletionsCreate ==
  /\ pc = "completions"
  /\ \E reply \in Replies :
       IF reply.kind = "text" THEN attemptReturns
       ELSE IF reply.kind = "empty" THEN attemptFails(EmptyResponse)
       ELSE attemptFails(reply)
  /\ UNCHANGED callLLMVars

\* lines 80-81: the 500 ms are over, continue with the next attempt
RetryDelayElapsed ==
  /\ pc = "retryDelay"
  /\ frame' = [frame EXCEPT !.attempt = @ + 1]
  /\ pc' = "responses"
  /\ UNCHANGED ret
  /\ UNCHANGED callLLMVars

NextCallLLM ==
  \/ ResponsesCreate
  \/ ChatCompletionsCreate
  \/ RetryDelayElapsed

SpecCallLLM == InitCallLLM /\ [][NextCallLLM]_vars

----------------------------------------------------------------------------
(* LLMService.generateRedesign and the chunk sub-requests.  A website is   *)
(* the sequence of its top-level sections, each with its number of img     *)
(* tags and the length of its markup in units of 25000 characters; css and *)
(* javascript are empty and no markup lies outside the sections, so that   *)
(* ContentOptimizer.needsOptimization (over 500 KB) is false and nothing   *)
(* is left for a mixed chunk.  frame.stack holds the activations of        *)
(* generateRedesign that have not returned, outermost first.  The waits of *)
(* the chunk loop are finite and left out.                                 *)

MaxNesting == 4
SectionImageCounts == {0, 5, 9}
SectionSizes == {1, 2, 4}
WebsiteSections == [imageCount : SectionImageCounts, size : SectionSizes]
Websites == UNION {[1..n -> WebsiteSections] : n \in 1..2}

RECURSIVE imageCount(_)
imageCount(website) ==
  IF website = << >> THEN 0
  ELSE Head(website).imageCount + imageCount(Tail(website))

RECURSIVE totalSize(_)
totalSize(website) ==
  IF website = << >> THEN 0
  ELSE Head(website).size + totalSize(Tail(website))

\* llmService.ts lines 526-563; sizes in units of 25000 characters, and the
\* estimate of ceil(length / 4) tokens over 20000 is length over 80000
shouldUseChunkedProcessing(website) ==
  \/ totalSize(website) > 3
  \/ 5 * totalSize(website) > 16
  \/ imageCount(website) > 8
  \/ (totalSize(website) > 2 /\ imageCount(website) > 5)

\* the html of the chunks of ContentChunker.chunkContent: the outer markup
\* of each section, which processChunk makes the website of the sub-request
chunkHtml(website) == [k \in 1..Len(website) |-> <<website[k]>>]

activation(website) == [website |-> website, chunks |-> << >>, i |-> 0]

InitNesting ==
  /\ InitNoPass
  /\ chunks = << >>
  /\ pc = "generateRedesign"
  /\ \E website \in Websites :
       frame = [op |-> "generateRedesign", stack |-> <<activation(website)>>]

\* the activation on top of the stack returns or throws to its caller: the
\* outermost to the client, any other to processChunk, whose loop moves on;
\* chunked is the flag of the request record handed to metricsCollector
returnToCaller(chunked) ==
  LET n == Len(frame.stack)
  IN IF n = 1
       THEN /\ frame' = [frame EXCEPT !.stack = << >>]
            /\ pc' = "returned"
            /\ ret' = [op |-> "generateRedesign", chunked |-> chunked]
       ELSE /\ frame' = [frame EXCEPT !.stack =
                           [SubSeq(@, 1, n - 1) EXCEPT ![n - 1].i = @ + 1]]
            /\ pc' = "processChunkedRedesign"
            /\ UNCHANGED ret

\* lines 95-109, 169-188: the chunking decision; a chunked request chunks
\* its content and enters processChunkedRedesign
GenerateRedesignCall ==
  /\ pc = "generateRedesign"
  /\ LET n == Len(frame.stack)
         website == frame.stack[n].website
     IN IF shouldUseChunkedProcessing(website)
          THEN /\ frame' = [frame EXCEPT !.stack[n].chunks = chunkHtml(website),
                                         !.stack[n].i = 1]
               /\ pc' = "processChunkedRedesign"
          ELSE /\ pc' = "generateRedesignTraditional"
               /\ UNCHANGED frame
  /\ UNCHANGED <<ret, callLLMVars>>

\* generateRedesignTraditional: the one request to the model settles
TraditionalSettles ==
  /\ pc = "generateRedesignTraditional"
  /\ returnToCaller(FALSE)
  /\ UNCHANGED callLLMVars

\* TODO2.md lines 909-935: processChunk builds the sub-request from the chunk
\* and awaits llmService.generateRedesign, directly or in processWithGPT4o
ProcessChunkCall ==
  /\ pc = "processChunkedRedesign"
  /\ Len(frame.stack) < MaxNesting
  /\ LET top == frame.stack[Len(frame.stack)]
     IN /\ top.i <= Len(top.chunks)
        /\ frame' = [frame EXCEPT !.stack = Append(@, activation(top.chunks[top.i]))]
  /\ pc' = "generateRedesign"
  /\ UNCHANGED <<ret, callLLMVars>>

\* the chunk loop is over: processChunkedRedesign aggregates and returns
ChunkedReturns ==
  /\ pc = "processChunkedRedesign"
  /\ LET top == frame.stack[Len(frame.stack)]
     IN top.i > Len(top.chunks)
  /\ returnToCaller(TRUE)
  /\ UNCHANGED callLLMVars

NextNesting ==
  \/ GenerateRedesignCall
  \/ TraditionalSettles
  \/ ProcessChunkCall
  \/ ChunkedReturns

SpecNesting == InitNesting /\ [][NextNesting]_vars

----------------------------------------------------------------------------
(* Reference quantities over the ledger *)

\* tokens of the records of h whose timestamp lies in the window (t - w, t]
RECURSIVE WindowUsage(_, _, _)
WindowUsage(h, t, w) ==
  IF h = << >> THEN 0
  ELSE (IF Head(h).timestamp > t - w /\ Head(h).timestamp <= t
          THEN Head(h).tokensUsed ELSE 0) + WindowUsage(Tail(h), t, w)

WithoutRecord(h, k) == SubSeq(h, 1, k - 1) \o SubSeq(h, k + 1, Len(h))

\* a bucket that has recorded exactly the history h and has purged nothing yet
BucketWithHistory(m, h) == [NewTokenBucket(m) EXCEPT !.usageHistory = h]

----------------------------------------------------------------------------
(* Limiter claims *)

\* C1: after any sequence of consumeTokens calls and clock advances,
\* canProcess(n) is true exactly when the tokens of the records consumed
\* within the last windowSize ticks, plus n, do not exceed maxTokens.
C1_AdmissionIffWindowFits ==
  \A m \in Models : \A n \in RequestSizes :
    canProcess(buckets[m], n, now)
      <=> (WindowUsage(ledger[m], now, WindowSize) + n
             <= TokenBucketConfig(m).maxTokens)

\* canProcess has just been called, it denies some request, and a record it
\* once counted has left the window
C1_Witness ==
  /\ ret.op = "canProcess"
  /\ \E n \in RequestSizes : ~canProcess(buckets[LimiterModel], n, now)
  /\ \E k \in 1..Len(ledger[LimiterModel]) :
       /\ ledger[LimiterModel][k].timestamp <= now - WindowSize
       /\ ledger[LimiterModel][k].tokensUsed > 0
  /\ \E k \in 1..Len(ledger[LimiterModel]) :
       /\ ledger[LimiterModel][k].timestamp > now - WindowSize
       /\ ledger[LimiterModel][k].tokensUsed > 0

\* C2: a consumption made at time t has no effect on canProcess at any time
\* later than t + windowSize: the answer is the one of a limiter in which
\* that consumption never happened.
C2_ExpiredConsumptionForgotten ==
  \A m \in Models : \A k \in 1..Len(ledger[m]) :
    (now > ledger[m][k].timestamp + WindowSize)
      => \A n \in RequestSizes :
           canProcess(buckets[m], n, now)
             <=> canProcess(BucketWithHistory(m, WithoutRecord(ledger[m], k)), n, now)

\* canProcess has just been called and admits a request that the expired
\* record alone would have denied
C2_Witness ==
  /\ ret.op = "canProcess"
  /\ \E k \in 1..Len(ledger[LimiterModel]), n \in RequestSizes :
       /\ now > ledger[LimiterModel][k].timestamp + WindowSize
       /\ ledger[LimiterModel][k].tokensUsed + n > MaxTokensGpt5
       /\ canProcess(buckets[LimiterModel], n, now)

\* C3: waitTimeForTokens(n) is 0 exactly when canProcess(n) is true at that
\* instant; otherwise it is greater than 0 and at most windowSize.
C3_WaitZeroIffAdmitted ==
  \A m \in Models :
    /\ \A n \in RequestSizes :
         LET w == waitTimeForTokens(buckets[m], n, now)
         IN /\ (w = 0) <=> canProcess(buckets[m], n, now)
            /\ ~canProcess(buckets[m], n, now) => (w > 0 /\ w <= WindowSize)
    /\ \A k \in 1..Len(buckets[m].waitTimes) :
         buckets[m].waitTimes[k] > 0 /\ buckets[m].waitTimes[k] <= WindowSize

\* a denied request has just been told to wait for less than a whole window:
\* the record that has to expire is already part of the way through it
C3_Witness ==
  /\ ret.op = "waitTimeForTokens"
  /\ buckets[LimiterModel].waitTimes # << >>
  /\ LET w == buckets[LimiterModel].waitTimes[Len(buckets[LimiterModel].waitTimes)]
     IN w > 0 /\ w < WindowSize

----------------------------------------------------------------------------
(* Claims about the pass *)

hasResult(k) == \E r \in 1..Len(chunkResults) : chunkResults[r].chunk = k

resultOf(k) == chunkResults[CHOOSE r \in 1..Len(chunkResults) : chunkResults[r].chunk = k]

timesDispatched(k) == Cardinality({d \in 1..Len(dispatched) : dispatched[d].chunk = k})

timesSettled(k) == Cardinality({r \in 1..Len(chunkResults) : chunkResults[r].chunk = k})

\* the lifecycle state of chunk k, read off the position of the pass
status(k) ==
  IF hasResult(k) THEN (IF resultOf(k).success THEN "SUCCEEDED" ELSE "FAILED")
  ELSE IF k = i /\ pc = "waiting" THEN "WAITING"
  ELSE IF k = i /\ pc = "generating" THEN "PROCESSING"
  ELSE "PENDING"

\* C4: for each model tier, the tokens recorded in the limiter within any
\* window of windowSize ticks never exceed the maxTokens of the tier.
C4_WindowNeverExceedsQuota ==
  \A m \in Models : \A k \in 1..Len(ledger[m]) :
    WindowUsage(ledger[m], ledger[m][k].timestamp, WindowSize)
      <= TokenBucketConfig(m).maxTokens

\* C5: a denied chunk is waited for and admission is attempted again; a chunk
\* is dispatched only in a state where canProcess of its estimate on its tier
\* is true.
C5_DispatchedOnlyWhenAdmitted ==
  \A d \in 1..Len(dispatched) : dispatched[d].admitted

\* the lifecycle steps PENDING -> WAITING -> PENDING -> PROCESSING ->
\* SUCCEEDED or FAILED, for every chunk
LifecycleStep ==
  \A k \in 1..Len(chunks) :
    \/ status(k)' = status(k)
    \/ status(k) = "PENDING" /\ status(k)' \in {"WAITING", "PROCESSING"}
    \/ status(k) = "WAITING" /\ status(k)' = "PENDING"
    \/ status(k) = "PROCESSING" /\ status(k)' \in {"SUCCEEDED", "FAILED"}

allSettled == \A k \in 1..Len(chunks) : status(k) \in {"SUCCEEDED", "FAILED"}

\* C6: every chunk follows PENDING -> (WAITING -> PENDING)* -> PROCESSING ->
\* SUCCEEDED or FAILED and eventually reaches SUCCEEDED or FAILED, and the pass
\* ends, given that every generation call settles and every timer fires.
C6_LifecycleAndTermination ==
  /\ [][LifecycleStep]_vars
  /\ <>(pc = "done" /\ allSettled)

\* the pass has ended after a chunk went through a rate-limit wait
C6_Witness ==
  /\ pc = "done"
  /\ allSettled
  /\ Len(chunks) >= 2
  /\ waited # << >>

\* C7: at most one chunk is in PROCESSING at any time: the generation call of
\* a chunk is not started before the call of every chunk dispatched earlier
\* has returned or failed.
C7_OneGenerationAtATime ==
  /\ Cardinality(inflight) <= 1
  /\ \A d \in 1..Len(dispatched) :
       d < Len(dispatched) => hasResult(dispatched[d].chunk)

\* the second chunk is being generated, the first one has settled
C7_Witness ==
  /\ inflight = {2}
  /\ pc = "generating"
  /\ hasResult(1)

\* C8: chunks are dispatched in priority order: no chunk is dispatched after a
\* chunk of strictly lower priority.
C8_DispatchedInPriorityOrder ==
  \A d \in 1..Len(dispatched), e \in 1..Len(dispatched) :
    d < e => priorityOrder(chunks[dispatched[d].chunk].priority)
               <= priorityOrder(chunks[dispatched[e].chunk].priority)

\* two chunks of different priority have been dispatched, and the one
\* dispatched first came later in the document
C8_Witness ==
  /\ Len(dispatched) = 2
  /\ chunks[dispatched[1].chunk].priority # chunks[dispatched[2].chunk].priority
  /\ chunks[dispatched[1].chunk].id > chunks[dispatched[2].chunk].id

\* C9: the pass produces exactly one Chunk Result per input chunk and
\* dispatches each chunk at most once: a failed chunk is never dispatched
\* again in the same pass.
C9_OneResultOneDispatchPerChunk ==
  /\ \A k \in 1..Len(chunks) : timesDispatched(k) <= 1 /\ timesSettled(k) <= 1
  /\ \A r \in 1..Len(chunkResults) : chunkResults[r].chunk \in 1..Len(chunks)
  /\ pc = "done" =>
       /\ Len(chunkResults) = Len(chunks)
       /\ \A k \in 1..Len(chunks) : timesDispatched(k) = 1 /\ timesSettled(k) = 1

\* the pass has ended with a failed chunk that was dispatched once
C9_Witness ==
  /\ pc = "done"
  /\ Len(chunks) >= 2
  /\ \E k \in 1..Len(chunks) :
       hasResult(k) /\ ~resultOf(k).success /\ timesDispatched(k) = 1

\* C10: a failure of the generation call on a chunk, quota or not, becomes a
\* failed Chunk Result carrying the error text and does not abort the pass:
\* every chunk after the failed one is still dispatched.
C10_FailureIsRecordedAndPassGoesOn ==
  /\ \A r \in 1..Len(chunkResults) :
       ~chunkResults[r].success =>
          /\ chunkResults[r].error \in {QuotaError, OtherError}
          /\ chunkResults[r].tokensUsed = 0
  /\ Len(dispatched) - Len(chunkResults) \in {0, 1}
  /\ \A r \in 1..Len(chunkResults) :
       (dispatched[r].chunk = chunkResults[r].chunk)
  /\ pc = "done" => \A k \in 1..Len(chunks) : timesDispatched(k) = 1

\* the first chunk failed on a quota rejection, the next chunk was dispatched
\* all the same and the pass has ended
C10_Witness ==
  /\ pc = "done"
  /\ Len(chunkResults) = 2
  /\ ~chunkResults[1].success
  /\ chunkResults[1].error = QuotaError
  /\ timesDispatched(chunkResults[2].chunk) = 1
  /\ chunkResults[2].success

----------------------------------------------------------------------------
(* Claims about failures, consumption and the result of the pass *)

\* the failed results of tier m whose error text indicates a quota rejection
quotaFailures(m) ==
  {r \in 1..Len(chunkResults) :
     /\ ~chunkResults[r].success
     /\ chunkResults[r].model = m
     /\ isQuotaError(chunkResults[r].error)}

\* C11: when the generation call fails on a chunk with a quota rejection, the
\* chunk is marked failed and a rate-limit error is recorded against the
\* limiter for the chunk's tier: the tier's error counter counts the quota
\* failures of its chunks.
C11_QuotaFailureRecordedOnLimiter ==
  \A m \in Models :
    buckets[m].errors429Count = Cardinality(quotaFailures(m))

\* the tokens the pass charges for chunk k
chargedTokens(k) == chunks[k].estimatedTokens

\* the usage history of tier m after one record was pushed at time t
historyAfterPush(m, t, n) ==
  Append(SelectSeq(buckets[m].usageHistory,
                   LAMBDA r : r.timestamp > t - WindowSize),
         [timestamp |-> t, tokensUsed |-> n])

ConsumptionStep ==
  IF Len(chunkResults') = Len(chunkResults) + 1
    THEN LET r == chunkResults'[Len(chunkResults')]
         IN IF r.success
              THEN /\ buckets'[r.model].usageHistory =
                        historyAfterPush(r.model, now', chargedTokens(r.chunk))
                   /\ ledger'[r.model] =
                        Append(ledger[r.model],
                               [timestamp |-> now',
                                tokensUsed |-> chargedTokens(r.chunk)])
                   /\ \A m \in Models \ {r.model} :
                        /\ buckets'[m].usageHistory = buckets[m].usageHistory
                        /\ ledger'[m] = ledger[m]
              ELSE \A m \in Models :
                        /\ buckets'[m].usageHistory = buckets[m].usageHistory
                        /\ ledger'[m] = ledger[m]
    ELSE /\ ledger' = ledger
         /\ \A m \in Models :
              Len(buckets'[m].usageHistory) <= Len(buckets[m].usageHistory)

\* C12: limiter consumption is recorded only after a successful generation
\* call: a chunk that succeeds appends exactly one usage record with its
\* charged tokens to its tier, a chunk that fails leaves the usage history of
\* every tier unchanged, and no other step of the pass adds a record.
C12_ConsumptionOnlyAfterSuccess == [][ConsumptionStep]_vars

\* one chunk has failed and another has succeeded, and the limiter holds the
\* single record of the one that succeeded
C12_Witness ==
  /\ \E r \in 1..Len(chunkResults) : ~chunkResults[r].success
  /\ \E r \in 1..Len(chunkResults) :
       /\ chunkResults[r].success
       /\ ledger[chunkResults[r].model] =
            <<[timestamp |-> now, tokensUsed |-> chargedTokens(chunkResults[r].chunk)]>>
  /\ Len(ledger["gpt-5"]) + Len(ledger["gpt-4o"]) = 1

\* the chunks that have a successful, respectively a failed, result
succeededChunks ==
  {chunkResults[r].chunk : r \in {q \in 1..Len(chunkResults) : chunkResults[q].success}}

failedChunks ==
  {chunkResults[r].chunk : r \in {q \in 1..Len(chunkResults) : ~chunkResults[q].success}}

\* the images of the chunks that succeeded, respectively failed, among the
\* first n results
RECURSIVE succeededImages(_)
succeededImages(n) ==
  IF n = 0 THEN 0
  ELSE succeededImages(n - 1)
         + (IF chunkResults[n].success
              THEN Len(chunks[chunkResults[n].chunk].images) ELSE 0)

RECURSIVE failedImages(_)
failedImages(n) ==
  IF n = 0 THEN 0
  ELSE failedImages(n - 1)
         + (IF chunkResults[n].success
              THEN 0 ELSE Len(chunks[chunkResults[n].chunk].images))

\* C13: a pass reports overall failure if and only if zero chunks succeeded;
\* whenever at least one chunk succeeds it reports overall success, whatever
\* the number of failed chunks.  Failure is reported by the error that
\* aggregateChunkResults throws, success by the returned success flag.
C13_FailureIffNoChunkSucceeded ==
  pc = "done" =>
    /\ (succeededChunks = {}) <=> (outcome = "threw")
    /\ (succeededChunks # {}) <=> (outcome = "returned" /\ streamingResult.success)

\* the pass has returned success although one of its two chunks failed
C13_Witness ==
  /\ pc = "done"
  /\ outcome = "returned"
  /\ streamingResult.success
  /\ Cardinality(failedChunks) = 1
  /\ Cardinality(succeededChunks) = 1

\* C14: at every progress report and in the final metrics the preserved-image
\* count is the sum of chunk.images.length over the chunks that have succeeded
\* so far; the images of failed chunks are never counted.
C14_PreservedImagesOfSucceededChunks ==
  /\ preservedImages = succeededImages(Len(chunkResults))
  /\ \A p \in 1..Len(progress) :
       progress[p].preservedImages
         = succeededImages(progress[p].completedChunks + progress[p].failedChunks)
  /\ outcome = "returned" =>
       streamingResult.imagePreservation.preserved
         = succeededImages(Len(chunkResults))

\* the final report and the metrics count the image of the chunk that
\* succeeded and not the image of the chunk that failed
C14_Witness ==
  /\ outcome = "returned"
  /\ failedImages(Len(chunkResults)) > 0
  /\ streamingResult.imagePreservation.preserved > 0
  /\ progress[Len(progress)].kind = "final"
  /\ progress[Len(progress)].preservedImages < totalImages(chunks)

\* the fragments of the aggregated document
fragments ==
  {streamingResult.result.htmlParts[k] :
     k \in 1..Len(streamingResult.result.htmlParts)}

\* C16: when some but not all chunks succeed, the aggregated document holds
\* the fragment of every succeeded chunk and of no failed chunk, and the
\* preservation rate is (images of succeeded chunks) / (images of all chunks).
C16_PartialSuccessAggregation ==
  (outcome = "returned" /\ succeededChunks # {} /\ failedChunks # {}) =>
    /\ streamingResult.success
    /\ fragments = succeededChunks
    /\ Len(streamingResult.result.htmlParts) = Cardinality(succeededChunks)
    /\ LET rate == streamingResult.imagePreservation.rate
           succeeded == succeededImages(Len(chunkResults))
           all == succeeded + failedImages(Len(chunkResults))
       IN /\ rate[2] > 0
          /\ rate[1] * all = succeeded * rate[2]

\* one chunk with an image failed, one chunk with an image succeeded: the
\* document holds one fragment and the rate is one half
C16_Witness ==
  /\ outcome = "returned"
  /\ Cardinality(failedChunks) = 1
  /\ Len(streamingResult.result.htmlParts) = 1
  /\ streamingResult.imagePreservation.rate = <<1, 2>>

reportsOf(kind, k) ==
  {p \in 1..Len(progress) : progress[p].kind = kind /\ progress[p].currentChunk = k}

\* C17: the progress sink is invoked once before each chunk is dispatched and
\* once more after the last chunk has finished, whatever the outcome of the
\* chunks, also when no chunk succeeds.
C17_ProgressBeforeEachChunkAndAtTheEnd ==
  /\ \A d \in 1..Len(dispatched) :
       Cardinality(reportsOf("chunk", dispatched[d].chunk)) = 1
  /\ pc = "done" =>
       /\ \A k \in 1..Len(chunks) : Cardinality(reportsOf("chunk", k)) = 1
       /\ Cardinality(reportsOf("final", Len(chunks))) = 1
       /\ progress[Len(progress)].kind = "final"

----------------------------------------------------------------------------
(* Claims about the aggregated document *)

\* the section type of the k-th fragment of the aggregated document
fragmentType(k) == chunks[streamingResult.result.htmlParts[k]].type

\* C15 as stated: in the aggregated document the fragment of a succeeded
\* header chunk is the first fragment and the fragment of a succeeded footer
\* chunk is the last one, for every set of succeeded chunk types, a succeeded
\* mixed chunk included, and every processing order.
C15_HeaderFirstFooterLast ==
  outcome = "returned" =>
    \A a \in 1..Len(streamingResult.result.htmlParts) :
      \A b \in 1..Len(streamingResult.result.htmlParts) :
        a < b => /\ fragmentType(b) = "header" => fragmentType(a) = "header"
                 /\ fragmentType(a) = "footer" => fragmentType(b) = "footer"

\* C15 amended: no fragment of another type precedes a header fragment, and
\* a footer fragment is followed by nothing but the fragment of the mixed
\* chunk, which comes last of all.
C15_HeaderFirstFooterLastBeforeMixed ==
  outcome = "returned" =>
    \A a \in 1..Len(streamingResult.result.htmlParts) :
      \A b \in 1..Len(streamingResult.result.htmlParts) :
        a < b => /\ fragmentType(b) = "header" => fragmentType(a) = "header"
                 /\ fragmentType(a) = "footer" => fragmentType(b) \in {"footer", "mixed"}
                 /\ fragmentType(a) = "mixed" => fragmentType(b) = "mixed"

\* header, footer and mixed chunk all succeeded, the footer was processed
\* first; the document is header, footer, mixed
C15_Witness ==
  /\ outcome = "returned"
  /\ chunks[1].type = "footer"
  /\ Len(streamingResult.result.htmlParts) = 3
  /\ fragmentType(1) = "header"
  /\ fragmentType(2) = "footer"
  /\ fragmentType(3) = "mixed"

----------------------------------------------------------------------------
(* Router claims *)

hasCriticalOrProduct(chunk) ==
  hasImportance(chunk.images, "critical") \/ hasImportance(chunk.images, "product")

\* the order in which routeMultipleChunks walks the chunks, as chunk indices
routingOrder == sortedForRouting(chunks, Len(chunks))

routingRank(k) == CHOOSE p \in 1..Len(routingOrder) : routingOrder[p] = k

\* the tokens routeMultipleChunks has allocated to tier m when it reaches the
\* chunk at rank p of its order
RECURSIVE allocatedBeforeRank(_, _)
allocatedBeforeRank(p, m) ==
  IF p <= 1 THEN 0
  ELSE allocatedBeforeRank(p - 1, m)
         + (IF routingMap[routingOrder[p - 1]].model = m
              THEN chunks[routingOrder[p - 1]].estimatedTokens ELSE 0)

allocatedBefore(k, m) == allocatedBeforeRank(routingRank(k), m)

fitsBudget(k, m) ==
  allocatedBefore(k, m) + chunks[k].estimatedTokens
    <= (IF m = "gpt-5" THEN Gpt5Budget ELSE Gpt4oBudget)

\* C18: routeMultipleChunks and routeContentChunk route every chunk that
\* contains a critical or a product image to gpt-5, whatever has been
\* allocated to gpt-5 already, also beyond its budget.
C18_CriticalImagesAlwaysOnGpt5 ==
  pc \in {"routedAll", "routedOne"} =>
    \A k \in DOMAIN routingMap :
      hasCriticalOrProduct(chunks[k]) => routingMap[k].model = "gpt-5"

\* routeMultipleChunks has sent a chunk with a product image to gpt-5 although
\* the chunks routed before it had already used up the gpt-5 budget
C18_Witness ==
  /\ pc = "routedAll"
  /\ \E k \in DOMAIN routingMap :
       /\ hasImportance(chunks[k].images, "product")
       /\ allocatedBefore(k, "gpt-5") > Gpt5Budget
       /\ routingMap[k].model = "gpt-5"

\* C19: in routeMultipleChunks a chunk without critical or product images
\* that contains a hero image, or whose own priority is high, is routed to
\* gpt-5 whenever the tokens allocated to gpt-5 plus its estimate do not
\* exceed the gpt-5 budget.
C19_HeroOrHighPriorityPrefersGpt5 ==
  pc = "routedAll" =>
    \A k \in DOMAIN routingMap :
      (/\ ~hasCriticalOrProduct(chunks[k])
       /\ (hasImportance(chunks[k].images, "hero") \/ chunks[k].priority = "high")
       /\ fitsBudget(k, "gpt-5"))
        => routingMap[k].model = "gpt-5"

\* C20: in routeMultipleChunks a chunk that fits in neither tier's remaining
\* budget is routed to gpt-5 if it contains any image and to gpt-4o if it
\* contains none.
C20_SaturatedFallbackByContent ==
  pc = "routedAll" =>
    \A k \in DOMAIN routingMap :
      (~fitsBudget(k, "gpt-5") /\ ~fitsBudget(k, "gpt-4o"))
        => routingMap[k].model =
             (IF Len(chunks[k].images) > 0 THEN "gpt-5" ELSE "gpt-4o")

\* with both budgets saturated, a chunk of plain text went to gpt-4o and a
\* chunk with a decorative image went to gpt-5
C20_Witness ==
  /\ pc = "routedAll"
  /\ \E k \in DOMAIN routingMap :
       /\ chunks[k].images = << >>
       /\ ~fitsBudget(k, "gpt-5") /\ ~fitsBudget(k, "gpt-4o")
       /\ routingMap[k].model = "gpt-4o"
  /\ \E k \in DOMAIN routingMap :
       /\ chunks[k].images = <<"decorative">>
       /\ ~fitsBudget(k, "gpt-5") /\ ~fitsBudget(k, "gpt-4o")
       /\ routingMap[k].model = "gpt-5"

allocatedTo(m) == allocatedBeforeRank(Len(chunks) + 1, m)

\* C22: routeMultipleChunks returns exactly one Model Selection per input
\* chunk, and the estimate of each chunk is added to the allocation counter
\* of the tier it is routed to, once, and to no other counter.
C22_OneSelectionOneAllocationPerChunk ==
  pc = "routedAll" =>
    /\ DOMAIN routingMap = 1..Len(chunks)
    /\ \A k \in 1..Len(chunks) :
         /\ routingMap[k].model \in Models
         /\ routingMap[k].estimatedTokens = chunks[k].estimatedTokens
    /\ ret.gpt5TokensUsed = allocatedTo("gpt-5")
    /\ ret.gpt4oTokensUsed = allocatedTo("gpt-4o")
    /\ ret.gpt5TokensUsed + ret.gpt4oTokensUsed = sumEstimatedTokens(chunks)

\* three chunks were routed, some to each tier
C22_Witness ==
  /\ pc = "routedAll"
  /\ Len(chunks) = 3
  /\ ret.gpt5TokensUsed > 0
  /\ ret.gpt4oTokensUsed > 0

\* the three conditions of feasibility, computed chunk by chunk
RECURSIVE tokensOfChunks(_, _)
tokensOfChunks(n, criticalOnly) ==
  IF n = 0 THEN 0
  ELSE tokensOfChunks(n - 1, criticalOnly)
         + (IF criticalOnly /\ ~hasCriticalOrProduct(chunks[n])
              THEN 0 ELSE chunks[n].estimatedTokens)

totalFits == tokensOfChunks(Len(chunks), FALSE) <= Gpt5Budget + Gpt4oBudget

criticalFits == tokensOfChunks(Len(chunks), TRUE) <= Gpt5Budget

noneOversized ==
  \A k \in 1..Len(chunks) : 2 * chunks[k].estimatedTokens <= ChunkSizeLimitDoubled

occurrences(seq, x) == Cardinality({k \in 1..Len(seq) : seq[k] = x})

\* C23: validateRoutingFeasibility returns, with feasible true exactly when
\* the total estimate fits the sum of the budgets, the estimate of the chunks
\* with a critical or product image fits the gpt-5 budget and no chunk exceeds
\* the chunk size limit; each violated condition adds exactly one issue and
\* exactly one recommendation.
C23_FeasibleIffThreeConditions ==
  pc = "validated" =>
    LET r == ret.result
    IN /\ r.feasible <=> (totalFits /\ criticalFits /\ noneOversized)
       /\ occurrences(r.issues, "totalTokens") = (IF totalFits THEN 0 ELSE 1)
       /\ occurrences(r.issues, "criticalTokens") = (IF criticalFits THEN 0 ELSE 1)
       /\ occurrences(r.issues, "oversizedChunks") = (IF noneOversized THEN 0 ELSE 1)
       /\ occurrences(r.recommendations, "multipleRounds")
            = (IF totalFits THEN 0 ELSE 1)
       /\ occurrences(r.recommendations, "increaseGpt5Budget")
            = (IF criticalFits THEN 0 ELSE 1)
       /\ occurrences(r.recommendations, "splitOversized")
            = (IF noneOversized THEN 0 ELSE 1)
       /\ Len(r.issues) = Len(r.recommendations)
       /\ Len(r.issues)
            = (IF totalFits THEN 0 ELSE 1) + (IF criticalFits THEN 0 ELSE 1)
                + (IF noneOversized THEN 0 ELSE 1)

\* the chunks fit the sum of the budgets and none has a critical image, but
\* one of them exceeds the size limit: one issue, one recommendation
C23_Witness ==
  /\ pc = "validated"
  /\ totalFits
  /\ criticalFits
  /\ ret.result.issues = <<"oversizedChunks">>
  /\ ret.result.recommendations = <<"splitOversized">>
  /\ ~ret.result.feasible

----------------------------------------------------------------------------
(* Claims about the reading calls of the limiter *)

ReadingCalls == {"canProcess", "getAvailableTokens", "waitTimeForTokens", "getMetrics"}

\* the usage records of bucket b that have not expired at time t
unexpiredRecords(b, t) == cleanOldUsage(b, t).usageHistory

\* the step leaves the unexpired records and the two counters of every bucket
\* as they are
RecordsAndCountersKept ==
  \A m \in Models :
    /\ unexpiredRecords(buckets'[m], now') = unexpiredRecords(buckets[m], now)
    /\ buckets'[m].queuedRequests = buckets[m].queuedRequests
    /\ buckets'[m].errors429Count = buckets[m].errors429Count

WaitTimesKept == \A m \in Models : buckets'[m].waitTimes = buckets[m].waitTimes

\* the step appends to the wait times of the limiter's bucket the wait that
\* waitTimeForTokens returns for some request it denies
DeniedWaitRecorded ==
  /\ \E n \in RequestSizes :
       /\ ~canProcess(buckets[LimiterModel], n, now)
       /\ buckets'[LimiterModel].waitTimes =
            Append(buckets[LimiterModel].waitTimes,
                   waitTimeForTokens(buckets[LimiterModel], n, now))
  /\ \A m \in Models \ {LimiterModel} : buckets'[m].waitTimes = buckets[m].waitTimes

\* C25 as stated: canProcess, getAvailableTokens, waitTimeForTokens and
\* getMetrics leave the unexpired usage records, the queued-request counter,
\* the rate-limit error counter and the recorded wait times unchanged.
C25_ReadingCallsChangeNothing ==
  [][ret'.op \in ReadingCalls => (RecordsAndCountersKept /\ WaitTimesKept)]_vars

\* C25 amended: the four calls leave the unexpired usage records and the two
\* counters unchanged; canProcess, getAvailableTokens and getMetrics leave
\* the recorded wait times unchanged too, while waitTimeForTokens appends the
\* wait it returns when it denies the request and nothing when it admits it.
C25_ReadingCallsOnlyRecordWaits ==
  [][ret'.op \in ReadingCalls =>
       /\ RecordsAndCountersKept
       /\ IF ret'.op = "waitTimeForTokens"
            THEN WaitTimesKept \/ DeniedWaitRecorded
            ELSE WaitTimesKept]_vars

\* getMetrics has just been called on a bucket that holds an unexpired
\* record, a recorded rate-limit error and a recorded wait
C25_Witness ==
  /\ ret.op = "getMetrics"
  /\ unexpiredRecords(buckets[LimiterModel], now) # << >>
  /\ buckets[LimiterModel].errors429Count > 0
  /\ buckets[LimiterModel].waitTimes # << >>

----------------------------------------------------------------------------
(* Claims about the model setting of the process *)

\* C26: after processWithGPT4o has returned or thrown, LLM_MODEL has the
\* value, or the absence of a value, that it had immediately before the
\* call, for every initial value including "not set".
C26_ModelSettingRestored ==
  (frame.op = "processWithGPT4o" /\ pc # "generating")
    => LLM_MODEL = frame.originalModel

----------------------------------------------------------------------------
(* Claims about two passes on one limiter *)

\* a pass is told by canProcess that its chunk fits
admissionStep ==
  \/ pc = "loop" /\ pc' = "dispatch" /\ waited' = waited
  \/ ret = noCall /\ ret' # noCall /\ ret'.returned

\* the window usage of model m at the current instant
windowUsage(m) == getCurrentUsage(cleanOldUsage(buckets[m], now))

\* C24: the check and the consumption are not one atomic step: a pass that
\* canProcess admits has booked nothing, every request is answered after
\* the check as it was before it, so a second pass can be admitted before
\* the first consumes, and the usage of the window then exceeds maxTokens.
C24_CheckBooksNothing ==
  [][admissionStep =>
       /\ ledger' = ledger
       /\ \A m \in Models, n \in RequestSizes :
            canProcess(buckets'[m], n, now') = canProcess(buckets[m], n, now)]_vars

\* both passes were admitted at once, neither slept, both generation calls
\* succeeded, and the two records in the window add up to more than the
\* quota: the later of the two checks cannot have seen the other's record
C24_Witness ==
  /\ outcome = "returned"
  /\ waited = << >>
  /\ dispatched = <<[chunk |-> 1, admitted |-> TRUE]>>
  /\ ret.op = "canProcess" /\ ret.returned /\ ret.settled
  /\ ret.model = routingMap[1].model
  /\ Len(ledger[ret.model]) = 2
  /\ windowUsage(ret.model) > TokenBucketConfig(ret.model).maxTokens

----------------------------------------------------------------------------
(* Claims about the chunks of a document *)

\* C27: the images of the chunks chunkContent returns are as many as
\* analyzeImages counts in the document, whatever their importance and
\* whether they sit in a recognised section or in the leftover markup.
C27_EveryImageInAChunk ==
  pc = "chunked" => totalImages(chunks) = ret.imageAnalysis.count

\* C28: no chunk holds markup that also belongs to another chunk, also when
\* regions matching the same or different selectors are nested.
C28_ChunksShareNoMarkup ==
  pc = "chunked" =>
    \A a, b \in 1..Len(chunks) : a # b => chunks[a].html \cap chunks[b].html = {}

----------------------------------------------------------------------------
(* Claims about the image-loss report *)

\* C29: every image source of the original markup that the optimized
\* markup lacks is reported in exactly one of the two lists, in issues when
\* the image is classified critical or product and in warnings otherwise;
\* success is true if and only if issues is empty.
C29_LossReportedByImportance ==
  pc = "validatedImages" =>
    LET r == ret.result
        h == frame.originalHtml
    IN /\ \A k \in 1..Len(h) :
            h[k].src \notin frame.optimizedHtml =>
              IF h[k].importance \in {"critical", "product"}
                THEN occurrences(r.issues, h[k].src) = 1
                       /\ occurrences(r.warnings, h[k].src) = 0
                ELSE occurrences(r.warnings, h[k].src) = 1
                       /\ occurrences(r.issues, h[k].src) = 0
       /\ r.success <=> r.issues = << >>

----------------------------------------------------------------------------
(* Claims about the splitting of oversized chunks *)

\* C30: splitOversizedChunks returns unchanged every chunk within the
\* ceiling, returns unsplit an oversized chunk that has no sub-section
\* within the ceiling, and lets no input chunk go without at least one
\* sub-chunk of it in the output.
C30_NoChunkLostBySplitting ==
  pc = "splitDone" =>
    \A k \in 1..Len(chunks) :
      LET chunk == chunks[k]
          kept == \E r \in 1..Len(ret.result) : ret.result[r] = chunk
          replaced == \E r \in 1..Len(ret.result) :
                        /\ Len(ret.result[r].id) = 2
                        /\ ret.result[r].id[1] = chunk.id[1]
          viable == \E n \in 1..Len(chunk.subSections) :
                      chunk.subSections[n].estimatedTokens <= frame.maxTokensPerChunk
      IN /\ chunk.estimatedTokens <= frame.maxTokensPerChunk => kept
         /\ (chunk.estimatedTokens > frame.maxTokensPerChunk /\ ~viable) => kept
         /\ kept \/ replaced

----------------------------------------------------------------------------
(* Claims about the order and the fields of the chunks of a document *)

\* C31 as stated: the chunk list is sorted by priority, except that a header
\* chunk is first and a footer chunk is last whatever their priority.
C31_HeaderFirstFooterLastWhateverPriority ==
  pc = "chunked" =>
    \A a, b \in 1..Len(chunks) :
      a < b =>
        /\ chunks[b].type = "header" => chunks[a].type = "header"
        /\ chunks[a].type = "footer" => chunks[b].type = "footer"
        /\ (chunks[a].type \notin {"header", "footer"}
              /\ chunks[b].type \notin {"header", "footer"})
             => priorityOrder(chunks[a].priority) <= priorityOrder(chunks[b].priority)

\* C31 amended: the chunk list is sorted by priority; among the chunks of
\* one priority a header chunk precedes the chunks that are not headers and
\* a footer chunk follows the chunks that are not footers.
C31_PriorityThenHeaderFirstFooterLast ==
  pc = "chunked" =>
    \A a, b \in 1..Len(chunks) :
      a < b =>
        /\ priorityOrder(chunks[a].priority) <= priorityOrder(chunks[b].priority)
        /\ chunks[a].priority = chunks[b].priority =>
             /\ chunks[b].type = "header" => chunks[a].type = "header"
             /\ chunks[a].type = "footer" => chunks[b].type = "footer"

\* a critical section extracted after the header is returned before it
C31_Witness ==
  /\ pc = "chunked"
  /\ Len(chunks) = 2
  /\ chunks[1].priority = "critical" /\ chunks[1].id = 2
  /\ chunks[2].type = "header" /\ chunks[2].priority = "medium"

\* the images of the document that lie in the markup of a chunk
heldImages(chunk) == imagesOf(frame.html, chunk.html, 1)

\* the priority the derivation gives a chunk of this type holding these images
derivedPriority(type, images) ==
  IF \E k \in 1..Len(images) : images[k] \in {"critical", "product"} THEN "critical"
  ELSE IF (\E k \in 1..Len(images) : images[k] = "hero") \/ type = "hero" THEN "high"
  ELSE IF type \in {"footer", "nav"} THEN "low"
  ELSE "medium"

\* C32 as stated: every chunk chunkContent returns, typed or mixed, has
\* the priority the derivation gives its type and the images it contains.
C32_EveryChunkPriorityDerived ==
  pc = "chunked" =>
    \A k \in 1..Len(chunks) :
      chunks[k].priority = derivedPriority(chunks[k].type, heldImages(chunks[k]))

\* C32 amended: every typed chunk has the priority the derivation gives its
\* type and the images it contains; the mixed chunk has priority low,
\* whatever images its markup holds.
C32_TypedChunkPriorityDerived ==
  pc = "chunked" =>
    \A k \in 1..Len(chunks) :
      chunks[k].priority =
        IF chunks[k].type = "mixed" THEN "low"
        ELSE derivedPriority(chunks[k].type, heldImages(chunks[k]))

\* a hero section of priority high, and a mixed chunk of priority low whose
\* markup holds a critical image
C32_Witness ==
  /\ pc = "chunked"
  /\ Len(chunks) = 2
  /\ chunks[1].type = "hero" /\ chunks[1].priority = "high"
  /\ chunks[2].type = "mixed" /\ chunks[2].priority = "low"
  /\ \E k \in 1..Len(heldImages(chunks[2])) : heldImages(chunks[2])[k] = "critical"

\* the elements of the document that no typed chunk holds
leftover ==
  {e \in 1..Len(frame.html) :
     \A k \in 1..Len(chunks) : chunks[k].type # "mixed" => e \notin chunks[k].html}

mixedChunks == SelectSeq(chunks, LAMBDA chunk : chunk.type = "mixed")

----------------------------------------------------------------------------
(* Claims about the token estimate of a chunk *)

\* C34: every chunk produced by chunkContent or by splitOversizedChunks has
\* estimatedTokens = ceil(markup length / 4) + the sum of the estimates of
\* the images in chunk.images; here for the sub-chunks splitOversizedChunks
\* produces, whose markup is a sub-section of the chunk they come from.
C34_EstimateIsMarkupPlusImages ==
  pc = "splitDone" =>
    \A r \in 1..Len(ret.result) :
      LET sub == ret.result[r]
      IN Len(sub.id) = 2 =>
           sub.estimatedTokens =
             chunks[sub.id[1]].subSections[sub.html].estimatedTokens
               + Len(sub.images) * ImageTokens

----------------------------------------------------------------------------
(* Claims about the generation request *)

\* C35: the model named in the generation request issued for a chunk is
\* the tier the router selected for the chunk.
C35_RequestNamesSelectedTier ==
  pc = "generating" => llmService.model = routingMap[i].model

\* a failure with status 429 or a 5xx status
retryable(error) ==
  error.kind = "error"
    /\ (error.status = 429 \/ error.status \in 500..599)

\* C36: callLLM makes at most two attempts per call; a second attempt is
\* made only when the first failed with status 429 or a 5xx status; any
\* other failure, and any failure of the second attempt, is thrown to the
\* caller without further attempts.
C36_AtMostTwoAttempts ==
  frame.op = "callLLM" =>
    LET attempts == frame.attempts
    IN /\ Len(attempts) <= 2
       /\ frame.attempt < 2
       /\ (Len(attempts) = 2 \/ frame.attempt = 1) => retryable(attempts[1])
       /\ (Len(attempts) >= 1 /\ attempts[Len(attempts)].kind = "error"
             /\ ~(Len(attempts) = 1 /\ retryable(attempts[1])))
            => /\ pc = "threw"
               /\ ret.threw = attempts[Len(attempts)]
       /\ pc = "threw" => attempts[Len(attempts)].kind = "error"

\* the first attempt failed with 429, the second with a server error, which
\* was thrown
C36_Witness ==
  /\ pc = "threw"
  /\ Len(frame.attempts) = 2
  /\ frame.attempts[1].status = 429
  /\ frame.attempts[2].status = 500
  /\ ret.threw = frame.attempts[2]

----------------------------------------------------------------------------
(* Claims about the least delay, the sequential pass within quota,
   feasibility and nesting *)

\* C37: for every usage history and every n <= maxTokens that canProcess
\* refuses, the value d returned by waitTimeForTokens(n) is the least delay
\* after which admission succeeds: with no further consumption canProcess(n)
\* is true at now + d and false at every time in [now, now + d).
C37_WaitIsLeastDelay ==
  \A m \in Models :
    \A n \in 0..buckets[m].config.maxTokens :
      ~canProcess(buckets[m], n, now) =>
        LET d == waitTimeForTokens(buckets[m], n, now)
        IN /\ canProcess(buckets[m], n, now + d)
           /\ \A t \in now..(now + d - 1) : ~canProcess(buckets[m], n, t)

\* a refused call returned a delay shorter than the window, and the oldest
\* of the two records in the window alone did not make room
C37_Witness ==
  /\ ret.op = "waitTimeForTokens"
  /\ Len(buckets[LimiterModel].usageHistory) = 2
  /\ buckets[LimiterModel].waitTimes # << >>
  /\ LET b == buckets[LimiterModel]
         w == b.waitTimes[Len(b.waitTimes)]
     IN /\ w < WindowSize
        /\ \E n \in 1..b.config.maxTokens :
             /\ ~canProcess(b, n, now)
             /\ waitTimeForTokens(b, n, now) = w
             /\ (getCurrentUsage(b) - b.usageHistory[1].tokensUsed) + n
                  > b.config.maxTokens

\* every chunk of the pass is within the maxTokens of the tier it is routed to
everyChunkFits ==
  \A k \in 1..Len(chunks) :
    chunks[k].estimatedTokens <= TokenBucketConfig(routingMap[k].model).maxTokens

\* C38: in a single sequential pass that is the only user of the limiter and
\* starts with an empty limiter, if every chunk's estimatedTokens is at most
\* the maxTokens of its tier, then after every consumeTokens call the usage
\* recorded for the tier within the window is at most maxTokens.
C38_WithinQuotaWhenChunksFit ==
  everyChunkFits =>
    \A m \in Models : \A k \in 1..Len(ledger[m]) :
      WindowUsage(ledger[m], ledger[m][k].timestamp, WindowSize)
        <= TokenBucketConfig(m).maxTokens

\* the second chunk of a tier was refused, slept for, dispatched and
\* consumed, and the two chunks together exceed the tier's maxTokens
C38_Witness ==
  /\ everyChunkFits
  /\ waited # << >>
  /\ \E m \in Models :
       /\ Len(ledger[m]) = 2
       /\ routingMap[waited[1].chunk].model = m
       /\ ledger[m][1].tokensUsed + ledger[m][2].tokensUsed
            > TokenBucketConfig(m).maxTokens

\* C39: whenever validateRoutingFeasibility reports feasible = true for a
\* chunk list, routeMultipleChunks on the same list allocates to each tier
\* chunks whose estimates total at most the budget of the tier.
C39_FeasibleStaysWithinBudgets ==
  (pc = "routedAll" /\ validateRoutingFeasibility(chunks).feasible) =>
    /\ ret.gpt5TokensUsed <= Gpt5Budget
    /\ ret.gpt4oTokensUsed <= Gpt4oBudget

\* C40: generateRedesign terminates for every request when every LLM call
\* returns: a chunk sub-request does not re-enter chunked processing without
\* bound, the nesting of processChunkedRedesign stays below every bound a
\* request is followed to, here MaxNesting.
C40_NestingDepthBounded ==
  frame.op = "generateRedesign" => Len(frame.stack) < MaxNesting

====
